---------------------------- MODULE Spec2Model ----------------------------
(***************************************************************************)
(* A model of the alzense walk tracker: the App component's walk state     *)
(* (src/src/App.tsx), the InsightsService clustering, zone classifier and  *)
(* session summary (src/src/services/audio.ts) and the RoutingService      *)
(* route scorer (src/unnamed/part_001).                                    *)
(*                                                                         *)
(* Locations are points of one meridian, written as their distance in      *)
(* metres from a reference point: on a meridian the haversine distance of  *)
(* GPSService.calculateDistance is the absolute difference.  Scores and    *)
(* rates are exact fractions, written in units of 1/Scale.                 *)
(***************************************************************************)
EXTENDS Integers, Sequences, FiniteSets, TLC

VARIABLES
    clIn,       \* clustering harness: the arguments of clusterNearbyEntries
    clOut,      \* clustering harness: its result, or NotRun
    zHeap,      \* zone harness: the heap of zone objects (address = index)
    zCalm,      \* zone harness: the calm zone array (addresses)
    zStress,    \* zone harness: the stress zone array (addresses)
    zUsed,      \* zone harness: mood entries logged so far, over all sessions
    zSession,   \* zone harness: the recorded session not yet classified
    zCall,      \* zone harness: the last call: its arguments, the heap as it
                \*   was, its clusters and the state before the first and
                \*   after each cluster
    smIn,       \* summary harness: the session given to generateSessionInsights
    smOut,      \* summary harness: its result, or NotRun
    rtIn,       \* route harness: the arguments of analyzeRouteOptimization
    rtOut,      \* route harness: <<>>, or <<its result>>
    appState,   \* App: the state of useState<AppState>
    closure,    \* App: the appState of the last render, which the handlers read
    appHeap,    \* App: the zone objects; appState's zone arrays hold addresses
    storage,    \* StorageService: the sessions and zones in localStorage
    gps,        \* GPSService: watchId (0 for null) and the browser's watches
    audioOn,    \* AudioService: the analyser is connected and monitored
    tasks,      \* the startWalk calls that wait for the GPS or the microphone
    counters,   \* the numbers of startWalk, logMood and endWalk calls made
    fbIn,       \* fallback harness: the arguments of createFallbackRoute
    fbOut,      \* fallback harness: <<>>, or <<its result>>
    wr,         \* one getWalkingRoute call: where it is, and what came of it
    sgIn,       \* suggestion harness: the arguments of generateRouteSuggestion
    sgOut,      \* suggestion harness: <<>>, or <<its result>>
    gt          \* GPS harness: one GPSService, its calls and the browser's watches

clusterVars == <<clIn, clOut>>

zoneVars == <<zHeap, zCalm, zStress, zUsed, zSession, zCall>>

summaryVars == <<smIn, smOut>>

routeVars == <<rtIn, rtOut>>

appVars == <<appState, closure, appHeap, storage, gps, audioOn, tasks, counters>>

fallbackVars == <<fbIn, fbOut>>

walkingVars == <<wr>>

suggestVars == <<sgIn, sgOut>>

gpsVars == <<gt>>

vars == <<clIn, clOut, zHeap, zCalm, zStress, zUsed, zSession, zCall, smIn, smOut,
          rtIn, rtOut, appState, closure, appHeap, storage, gps, audioOn, tasks,
          counters, fbIn, fbOut, wr, sgIn, sgOut, gt>>

NotRun == "notRun"

Moods == {"calm", "neutral", "stressed"}

(***************************************************************************)
(* Each harness has its own variables; the others rest at these values.    *)
(***************************************************************************)
NoSession == [pending |-> FALSE, moodEntries |-> <<>>]

NoCall ==
    [made |-> FALSE, session |-> [moodEntries |-> <<>>],
     existingCalmZones |-> <<>>, existingStressZones |-> <<>>, heapBefore |-> <<>>,
     clusters |-> <<>>, steps |-> <<>>]

ClusterIdle ==
    /\ clIn = [entries |-> <<>>, radiusMeters |-> 0]
    /\ clOut = NotRun

ZoneIdle ==
    /\ zHeap = <<>>
    /\ zCalm = <<>>
    /\ zStress = <<>>
    /\ zUsed = 0
    /\ zSession = NoSession
    /\ zCall = NoCall

SummaryIdle ==
    /\ smIn = [moodEntries |-> <<>>, stressCount |-> 0, calmCount |-> 0, neutralCount |-> 0]
    /\ smOut = NotRun

RouteIdle ==
    /\ rtIn = [waypoints |-> <<>>, calmZones |-> <<>>, stressZones |-> <<>>]
    /\ rtOut = <<>>

\* useState<AppState>({...}) of App.tsx, lines 17-26.  null is <<>> and a
\* value x that may be null is <<x>>.
InitialAppState ==
    [currentSession |-> <<>>, isTracking |-> FALSE, currentLocation |-> <<>>,
     sessions |-> <<>>, calmZones |-> <<>>, stressZones |-> <<>>,
     isRecordingAudio |-> FALSE, currentNoiseLevel |-> 0]

NoWalks == [startWalk |-> 0, logMood |-> 0, endWalk |-> 0]

AppIdle ==
    /\ appState = InitialAppState
    /\ closure = InitialAppState
    /\ appHeap = <<>>
    /\ storage = [sessions |-> <<>>, calmZones |-> <<>>, stressZones |-> <<>>]
    /\ gps = [watchId |-> 0, watches |-> {}, issued |-> 0]
    /\ audioOn = FALSE
    /\ tasks = <<>>
    /\ counters = NoWalks

FallbackIdle ==
    /\ fbIn = [start |-> 0, end |-> 0, calmZones |-> <<>>, stressZones |-> <<>>]
    /\ fbOut = <<>>

\* No getWalkingRoute call made: nothing requested, nothing returned.
NoWalkingRoute ==
    [pc |-> "idle", start |-> 0, end |-> 0, calmZones |-> <<>>, stressZones |-> <<>>,
     requests |-> <<>>, failures |-> <<>>, built |-> <<>>, outcome |-> <<>>]

WalkingIdle == wr = NoWalkingRoute

SuggestIdle ==
    /\ sgIn = [start |-> 0, end |-> 0, calmZones |-> <<>>, stressZones |-> <<>>]
    /\ sgOut = <<>>

\* A GPSService just constructed: watchId null (0), no watch registered, no
\* call made.
NoTracking ==
    [watchId |-> 0, watches |-> {}, issued |-> 0, pending |-> 0,
     lastCall |-> "none", updatedSinceStop |-> FALSE]

GpsIdle == gt = NoTracking

(***************************************************************************)
(* Bounds of the model.                                                    *)
(***************************************************************************)
MaxClusterInput == 3

MaxEntries == 4

MaxSummaryEntries == 3

MaxWaypoints == 4

MaxCalls == 5

MaxPending == 1

(***************************************************************************)
(* Sequence helpers.                                                       *)
(***************************************************************************)
SeqsUpTo(S, n) == UNION {[1..k -> S] : k \in 0..n}

Range(s) == {s[i] : i \in 1..Len(s)}

RECURSIVE SumSeq(_)
SumSeq(s) == IF s = <<>> THEN 0 ELSE Head(s) + SumSeq(Tail(s))

CountIn(s, P(_)) == Cardinality({i \in 1..Len(s) : P(s[i])})

(***************************************************************************)
(* GPSService                                                              *)
(***************************************************************************)
calculateDistance(loc1, loc2) == IF loc1 >= loc2 THEN loc1 - loc2 ELSE loc2 - loc1

isWithinRadius(center, point, radiusMeters) ==
    calculateDistance(center, point) <= radiusMeters

(***************************************************************************)
(* InsightsService.clusterNearbyEntries                                    *)
(*                                                                         *)
(* NearbyScan is the inner forEach (the scan for the anchor's neighbours), *)
(* ClusterScan the outer one; acc carries the processed id set.            *)
(***************************************************************************)
RECURSIVE NearbyScanNoMark(_, _, _, _, _)
NearbyScanNoMark(entries, entry, radiusMeters, j, acc) ==
    IF j > Len(entries) THEN acc
    ELSE LET otherEntry == entries[j] IN
         IF otherEntry.id = entry.id \/ otherEntry.id \in acc.processed
         THEN NearbyScanNoMark(entries, entry, radiusMeters, j + 1, acc)
         ELSE IF calculateDistance(entry.loc, otherEntry.loc) <= radiusMeters
         THEN NearbyScanNoMark(entries, entry, radiusMeters, j + 1,
                  [members |-> Append(acc.members, otherEntry),
                   processed |-> acc.processed])
         ELSE NearbyScanNoMark(entries, entry, radiusMeters, j + 1, acc)

RECURSIVE NearbyScan(_, _, _, _, _)
NearbyScan(entries, entry, radiusMeters, j, acc) ==
    IF j > Len(entries) THEN acc
    ELSE LET otherEntry == entries[j] IN
         IF otherEntry.id = entry.id \/ otherEntry.id \in acc.processed
         THEN NearbyScan(entries, entry, radiusMeters, j + 1, acc)
         ELSE IF calculateDistance(entry.loc, otherEntry.loc) <= radiusMeters
         THEN NearbyScan(entries, entry, radiusMeters, j + 1,
                  [members |-> Append(acc.members, otherEntry),
                   processed |-> acc.processed \cup {otherEntry.id}])
         ELSE NearbyScan(entries, entry, radiusMeters, j + 1, acc)

\* Mutant of ClusterScan: the center is recomputed as the mean of the members.
RECURSIVE ClusterScanCentroid(_, _, _, _)
ClusterScanCentroid(entries, radiusMeters, i, acc) ==
    IF i > Len(entries) THEN acc.clusters
    ELSE LET entry == entries[i] IN
         IF entry.id \in acc.processed
         THEN ClusterScanCentroid(entries, radiusMeters, i + 1, acc)
         ELSE LET scan == NearbyScan(entries, entry, radiusMeters, 1,
                              [members |-> <<entry>>, processed |-> acc.processed])
                  total[m \in 0..Len(scan.members)] ==
                      IF m = 0 THEN 0 ELSE total[m - 1] + scan.members[m].loc
              IN ClusterScanCentroid(entries, radiusMeters, i + 1,
                     [clusters |-> Append(acc.clusters,
                                      [center |-> total[Len(scan.members)] \div Len(scan.members),
                                       entries |-> scan.members]),
                      processed |-> scan.processed \cup {entry.id}])

RECURSIVE ClusterScan(_, _, _, _)
ClusterScan(entries, radiusMeters, i, acc) ==
    IF i > Len(entries) THEN acc.clusters
    ELSE LET entry == entries[i] IN
         IF entry.id \in acc.processed
         THEN ClusterScan(entries, radiusMeters, i + 1, acc)
         ELSE LET scan == NearbyScan(entries, entry, radiusMeters, 1,
                              [members |-> <<entry>>, processed |-> acc.processed])
              IN ClusterScan(entries, radiusMeters, i + 1,
                     [clusters |-> Append(acc.clusters,
                                      [center |-> entry.loc, entries |-> scan.members]),
                      processed |-> scan.processed \cup {entry.id}])

clusterNearbyEntries(entries, radiusMeters) ==
    ClusterScan(entries, radiusMeters, 1, [clusters |-> <<>>, processed |-> {}])

(***************************************************************************)
(* Fractions.  A score or a rate r is written as the integer r * Scale;    *)
(* Scale is a multiple of every cluster size the model reaches and of 20,  *)
(* so every rate, 0.6, 0.1 and 0.05 are exact.                             *)
(***************************************************************************)
Scale == 2 * 2 * 3 * 5

Rate(n, total) == (n * Scale) \div total

RateThreshold == (6 * Scale) \div 10

ScoreIncrement == Scale \div 10

Min(a, b) == IF a <= b THEN a ELSE b

Max(a, b) == IF a >= b THEN a ELSE b

RECURSIVE MaxOf(_)
MaxOf(s) == IF Len(s) = 1 THEN s[1] ELSE Max(Head(s), MaxOf(Tail(s)))

(***************************************************************************)
(* InsightsService.updateZonesFromSession                                  *)
(*                                                                         *)
(* Zone objects live in a heap (a sequence; an object's address is its     *)
(* index) and a zone array is a sequence of addresses: the spread copies   *)
(* [...existingCalmZones] copy the addresses, not the objects.  A zone is  *)
(* [id, center, radius, score, count, last], where score, count and last   *)
(* stand for calmScore/visitCount/lastVisited or                           *)
(* stressScore/stressCount/lastStressed.  An id is <<kind, Date.now(),     *)
(* Math.random() suffix>>; draws lists the suffixes Math.random yields,    *)
(* one per zone created.                                                   *)
(***************************************************************************)
ClusterRadius == 30

MergeRadius == 50

NewZoneRadius == 30

MinClusterSize == 2

StressRate(cluster) ==
    Rate(CountIn(cluster.entries, LAMBDA e : e.mood = "stressed"), Len(cluster.entries))

CalmRate(cluster) ==
    Rate(CountIn(cluster.entries, LAMBDA e : e.mood = "calm"), Len(cluster.entries))

MaxTimestamp(cluster) ==
    MaxOf([i \in 1..Len(cluster.entries) |-> cluster.entries[i].ts])

\* Mutant of ClusterKind: the member-count condition left out.
ClusterKindAnySize(cluster) ==
    IF StressRate(cluster) > RateThreshold THEN "stress"
    ELSE IF CalmRate(cluster) > RateThreshold THEN "calm"
    ELSE "none"

\* The branch a cluster takes: the if / else-if of lines 326 and 348.
ClusterKind(cluster) ==
    IF StressRate(cluster) > RateThreshold /\ Len(cluster.entries) >= MinClusterSize
    THEN "stress"
    ELSE IF CalmRate(cluster) > RateThreshold /\ Len(cluster.entries) >= MinClusterSize
    THEN "calm"
    ELSE "none"

\* Mutant of FindZone: the zone is looked for within the clustering radius.
FindZoneWithinClusterRadius(heap, zones, center) ==
    LET hits == {i \in 1..Len(zones) :
                    calculateDistance(heap[zones[i]].center, center) < ClusterRadius}
    IN IF hits = {} THEN 0
       ELSE zones[CHOOSE i \in hits : \A j \in hits : i <= j]

\* zones.find(zone => calculateDistance(zone.center, cluster.center) < 50):
\* the address of the first such zone of the array, 0 when there is none.
FindZone(heap, zones, center) ==
    LET hits == {i \in 1..Len(zones) :
                    calculateDistance(heap[zones[i]].center, center) < MergeRadius}
    IN IF hits = {} THEN 0
       ELSE zones[CHOOSE i \in hits : \A j \in hits : i <= j]

\* Mutant of MergedZone: the score incremented without saturating at 1.
MergedZoneNoClamp(zone, cluster) ==
    [zone EXCEPT !.count = zone.count + Len(cluster.entries),
                 !.score = zone.score + ScoreIncrement,
                 !.last = Max(zone.last, MaxTimestamp(cluster))]

\* Mutant of MergedZone: the last-timestamp overwritten by the cluster's.
MergedZoneOverwriteLast(zone, cluster) ==
    [zone EXCEPT !.count = zone.count + Len(cluster.entries),
                 !.score = Min(Scale, zone.score + ScoreIncrement),
                 !.last = MaxTimestamp(cluster)]

\* Mutant of MergedZone: the zone is also moved onto the cluster.
MergedZoneRecentred(zone, cluster) ==
    [zone EXCEPT !.count = zone.count + Len(cluster.entries),
                 !.score = Min(Scale, zone.score + ScoreIncrement),
                 !.last = Max(zone.last, MaxTimestamp(cluster)),
                 !.center = cluster.center]

\* The three assignments to existingZone (lines 333-337 and 355-359).
MergedZone(zone, cluster) ==
    [zone EXCEPT !.count = zone.count + Len(cluster.entries),
                 !.score = Min(Scale, zone.score + ScoreIncrement),
                 !.last = Max(zone.last, MaxTimestamp(cluster))]

\* Mutant of CreatedZone: the first member's timestamp instead of the latest.
CreatedZoneFirstTimestamp(kind, cluster, now, suffix) ==
    [id |-> <<kind, now, suffix>>,
     center |-> cluster.center,
     radius |-> NewZoneRadius,
     score |-> IF kind = "stress" THEN StressRate(cluster) ELSE CalmRate(cluster),
     count |-> Len(cluster.entries),
     last |-> cluster.entries[1].ts]

\* Mutant of CreatedZone: the score of a zone of either kind is the calm rate.
CreatedZoneCalmRate(kind, cluster, now, suffix) ==
    [id |-> <<kind, now, suffix>>,
     center |-> cluster.center,
     radius |-> NewZoneRadius,
     score |-> CalmRate(cluster),
     count |-> Len(cluster.entries),
     last |-> MaxTimestamp(cluster)]

\* The object literal pushed at lines 339-346 and 361-368.
CreatedZone(kind, cluster, now, suffix) ==
    [id |-> <<kind, now, suffix>>,
     center |-> cluster.center,
     radius |-> NewZoneRadius,
     score |-> IF kind = "stress" THEN StressRate(cluster) ELSE CalmRate(cluster),
     count |-> Len(cluster.entries),
     last |-> MaxTimestamp(cluster)]

\* One iteration of clusters.forEach.  st = [heap, calmZones, stressZones,
\* created]: the heap, the two local arrays and the number of zones created
\* so far in this call.
ProcessCluster(st, cluster, now, draws) ==
    LET kind == ClusterKind(cluster)
        zones == IF kind = "stress" THEN st.stressZones ELSE st.calmZones
        existingZone == FindZone(st.heap, zones, cluster.center)
    IN IF kind = "none" THEN st
       ELSE IF existingZone # 0
       THEN [st EXCEPT !.heap[existingZone] = MergedZone(st.heap[existingZone], cluster)]
       ELSE LET zone == CreatedZone(kind, cluster, now, draws[st.created + 1])
                addr == Len(st.heap) + 1
            IN [heap |-> Append(st.heap, zone),
                calmZones |-> IF kind = "calm" THEN Append(st.calmZones, addr)
                                               ELSE st.calmZones,
                stressZones |-> IF kind = "stress" THEN Append(st.stressZones, addr)
                                                   ELSE st.stressZones,
                created |-> st.created + 1]

RECURSIVE ZoneScan(_, _, _, _, _)
ZoneScan(clusters, n, st, now, draws) ==
    IF n = 0 THEN st
    ELSE ProcessCluster(ZoneScan(clusters, n - 1, st, now, draws), clusters[n], now, draws)

\* The call: the returned arrays, the heap after it, and the state before
\* the first and after each cluster.
updateZonesFromSession(session, existingCalmZones, existingStressZones, heap, now, draws) ==
    LET clusters == clusterNearbyEntries(session.moodEntries, ClusterRadius)
        st0 == [heap |-> heap, calmZones |-> existingCalmZones,
                stressZones |-> existingStressZones, created |-> 0]
        end == ZoneScan(clusters, Len(clusters), st0, now, draws)
    IN [calmZones |-> end.calmZones,
        stressZones |-> end.stressZones,
        heap |-> end.heap,
        created |-> end.created,
        clusters |-> clusters,
        steps |-> [n \in 1..(Len(clusters) + 1) |->
                      ZoneScan(clusters, n - 1, st0, now, draws)]]

(***************************************************************************)
(* InsightsService.generateSessionInsights                                 *)
(*                                                                         *)
(* The summary is the list of its sentences (the code joins them with a    *)
(* space); a sentence is its text with the numbers it prints.  Timestamps  *)
(* are counted in hours of local time, so getHours() is ts mod 24.         *)
(***************************************************************************)
NoisyAbove == 60

MorningFrom == 6

AfternoonFrom == 12

EveningFrom == 18

LocationMinEntries == 3

LocationRadius == 50

\* Math.round((count / total) * 100)
RoundPercent(count, total) == (200 * count + total) \div (2 * total)

getHours(ts) == ts % 24

Filter(s, P(_)) == SelectSeq(s, P)

NoDataSummary == << [text |-> "No mood data recorded for this walk."] >>

\* periodStressRates: the rate of a period as a fraction num / den, 0 / 1
\* for a period without entries.
PeriodStressRate(name, entries) ==
    [name |-> name,
     num |-> IF Len(entries) > 0
             THEN Len(Filter(entries, LAMBDA e : e.mood = "stressed")) ELSE 0,
     den |-> IF Len(entries) > 0 THEN Len(entries) ELSE 1]

RateLess(a, b) == a.num * b.den < b.num * a.den

\* reduce((best, current) => current.stressRate < best.stressRate ? current : best)
RECURSIVE ReduceBest(_, _, _)
ReduceBest(rates, i, best) ==
    IF i > Len(rates) THEN best
    ELSE ReduceBest(rates, i + 1, IF RateLess(rates[i], best) THEN rates[i] ELSE best)

RECURSIVE ReduceWorst(_, _, _)
ReduceWorst(rates, i, worst) ==
    IF i > Len(rates) THEN worst
    ELSE ReduceWorst(rates, i + 1, IF RateLess(worst, rates[i]) THEN rates[i] ELSE worst)

\* The sentences analyzeTimePatterns adds: one or none.
analyzeTimePatterns(morning, afternoon, evening) ==
    LET periodStressRates == << PeriodStressRate("morning", morning),
                                PeriodStressRate("afternoon", afternoon),
                                PeriodStressRate("evening", evening) >>
        bestPeriod == ReduceBest(periodStressRates, 2, periodStressRates[1])
        worstPeriod == ReduceWorst(periodStressRates, 2, periodStressRates[1])
    IN IF 10 * bestPeriod.num < 2 * bestPeriod.den
          /\ 10 * worstPeriod.num > 4 * worstPeriod.den
       THEN << [text |-> "Consider walking more in the <period> when stress levels are lower.",
                period |-> bestPeriod.name] >>
       ELSE <<>>

\* Mutant of analyzeLocationPatterns: the calm clusters are looked at first.
analyzeLocationPatternsCalmFirst(entries) ==
    IF Len(entries) < LocationMinEntries THEN <<>>
    ELSE LET clusters == clusterNearbyEntries(entries, LocationRadius)
             stressClusters == Filter(clusters, LAMBDA c : StressRate(c) > RateThreshold)
             calmClusters == Filter(clusters, LAMBDA c : CalmRate(c) > RateThreshold)
         IN IF Len(calmClusters) > 0
            THEN << [text |-> "Some areas consistently provided calm moments. These might be good rest spots."] >>
            ELSE IF Len(stressClusters) > 0
            THEN << [text |-> "Some areas consistently triggered stress. Consider avoiding these locations."] >>
            ELSE <<>>

\* The sentences analyzeLocationPatterns adds: one or none.
analyzeLocationPatterns(entries) ==
    IF Len(entries) < LocationMinEntries THEN <<>>
    ELSE LET clusters == clusterNearbyEntries(entries, LocationRadius)
             stressClusters == Filter(clusters, LAMBDA c : StressRate(c) > RateThreshold)
             calmClusters == Filter(clusters, LAMBDA c : CalmRate(c) > RateThreshold)
         IN IF Len(stressClusters) > 0
            THEN << [text |-> "Some areas consistently triggered stress. Consider avoiding these locations."] >>
            ELSE IF Len(calmClusters) > 0
            THEN << [text |-> "Some areas consistently provided calm moments. These might be good rest spots."] >>
            ELSE <<>>

\* The three filters of the time-based patterns (lines 192-203).
morningEntries(moodEntries) ==
    Filter(moodEntries, LAMBDA e : getHours(e.ts) >= MorningFrom
                                      /\ getHours(e.ts) < AfternoonFrom)

afternoonEntries(moodEntries) ==
    Filter(moodEntries, LAMBDA e : getHours(e.ts) >= AfternoonFrom
                                      /\ getHours(e.ts) < EveningFrom)

\* Mutant of eveningEntries: the hour 18 itself is left out.
eveningEntriesAfter18(moodEntries) ==
    Filter(moodEntries, LAMBDA e : getHours(e.ts) > EveningFrom
                                      \/ getHours(e.ts) < MorningFrom)

eveningEntries(moodEntries) ==
    Filter(moodEntries, LAMBDA e : getHours(e.ts) >= EveningFrom
                                      \/ getHours(e.ts) < MorningFrom)

\* Mutant of generateSessionInsights: the empty test made on the counters
\* instead of the entry list.
generateSessionInsightsByCounts(session) ==
    IF session.stressCount + session.calmCount = 0 THEN NoDataSummary
    ELSE << [text |-> "The walk had a balanced mix of emotions."] >>

generateSessionInsights(session) ==
    LET moodEntries == session.moodEntries
        stressCount == session.stressCount
        calmCount == session.calmCount
        totalEntries == Len(moodEntries)
        overall ==
            IF stressCount > calmCount
            THEN << [text |-> "The walk had more stressful moments (<n>%) than calm ones.",
                     percent |-> RoundPercent(stressCount, totalEntries)] >>
            ELSE IF calmCount > stressCount
            THEN << [text |-> "The walk was mostly peaceful (<n>% calm moments).",
                     percent |-> RoundPercent(calmCount, totalEntries)] >>
            ELSE << [text |-> "The walk had a balanced mix of emotions."] >>
        highNoiseEntries == Filter(moodEntries, LAMBDA e : e.noise > NoisyAbove)
        highNoiseStressed == Filter(highNoiseEntries, LAMBDA e : e.mood = "stressed")
        noise ==
            IF Len(highNoiseStressed) > 0
            THEN << [text |-> "High noise levels (<n> instances) often correlated with stress (<m>% of the time).",
                     instances |-> Len(highNoiseStressed),
                     percent |-> RoundPercent(Len(highNoiseStressed), Len(highNoiseEntries))] >>
            ELSE <<>>
    IN IF Len(moodEntries) = 0 THEN NoDataSummary
       ELSE overall \o noise
               \o analyzeTimePatterns(morningEntries(moodEntries),
                                      afternoonEntries(moodEntries),
                                      eveningEntries(moodEntries))
               \o analyzeLocationPatterns(moodEntries)

(***************************************************************************)
(* RoutingService.analyzeRouteOptimization                                 *)
(*                                                                         *)
(* acc = [calmScore, avoidsStressZones, includesCalmZones]: the three      *)
(* locals of the function.  A zone here is [id, center, radius].           *)
(***************************************************************************)
BaseScore == Scale \div 2

StressPenalty == Scale \div 10

CalmReward == Scale \div 20

\* Mutant of ScanStressZones: the penalty applied once per zone, where its
\* id is recorded.
RECURSIVE ScanStressZonesOncePerZone(_, _, _, _)
ScanStressZonesOncePerZone(pointLocation, stressZones, i, acc) ==
    IF i > Len(stressZones) THEN acc
    ELSE LET zone == stressZones[i] IN
         IF isWithinRadius(zone.center, pointLocation, zone.radius)
            /\ zone.id \notin Range(acc.avoidsStressZones)
         THEN ScanStressZonesOncePerZone(pointLocation, stressZones, i + 1,
                  [acc EXCEPT !.calmScore = @ - StressPenalty,
                              !.avoidsStressZones = Append(@, zone.id)])
         ELSE ScanStressZonesOncePerZone(pointLocation, stressZones, i + 1, acc)

\* stressZones.forEach of lines 1046-1053
RECURSIVE ScanStressZones(_, _, _, _)
ScanStressZones(pointLocation, stressZones, i, acc) ==
    IF i > Len(stressZones) THEN acc
    ELSE LET zone == stressZones[i] IN
         IF isWithinRadius(zone.center, pointLocation, zone.radius)
         THEN ScanStressZones(pointLocation, stressZones, i + 1,
                  [acc EXCEPT !.calmScore = @ - StressPenalty,
                              !.avoidsStressZones =
                                  IF zone.id \in Range(@) THEN @ ELSE Append(@, zone.id)])
         ELSE ScanStressZones(pointLocation, stressZones, i + 1, acc)

\* Mutant of ScanCalmZones: the id is pushed at every hit.
RECURSIVE ScanCalmZonesPushAlways(_, _, _, _)
ScanCalmZonesPushAlways(pointLocation, calmZones, i, acc) ==
    IF i > Len(calmZones) THEN acc
    ELSE LET zone == calmZones[i] IN
         IF isWithinRadius(zone.center, pointLocation, zone.radius)
         THEN ScanCalmZonesPushAlways(pointLocation, calmZones, i + 1,
                  [acc EXCEPT !.calmScore = @ + CalmReward,
                              !.includesCalmZones = Append(@, zone.id)])
         ELSE ScanCalmZonesPushAlways(pointLocation, calmZones, i + 1, acc)

\* calmZones.forEach of lines 1056-1063
RECURSIVE ScanCalmZones(_, _, _, _)
ScanCalmZones(pointLocation, calmZones, i, acc) ==
    IF i > Len(calmZones) THEN acc
    ELSE LET zone == calmZones[i] IN
         IF isWithinRadius(zone.center, pointLocation, zone.radius)
         THEN ScanCalmZones(pointLocation, calmZones, i + 1,
                  [acc EXCEPT !.calmScore = @ + CalmReward,
                              !.includesCalmZones =
                                  IF zone.id \in Range(@) THEN @ ELSE Append(@, zone.id)])
         ELSE ScanCalmZones(pointLocation, calmZones, i + 1, acc)

\* waypoints.forEach of lines 1042-1064
RECURSIVE ScanWaypoints(_, _, _, _, _)
ScanWaypoints(waypoints, calmZones, stressZones, p, acc) ==
    IF p > Len(waypoints) THEN acc
    ELSE ScanWaypoints(waypoints, calmZones, stressZones, p + 1,
             ScanCalmZones(waypoints[p], calmZones, 1,
                 ScanStressZones(waypoints[p], stressZones, 1, acc)))

analyzeRouteOptimization(waypoints, calmZones, stressZones) ==
    LET end == ScanWaypoints(waypoints, calmZones, stressZones, 1,
                   [calmScore |-> BaseScore, avoidsStressZones |-> <<>>,
                    includesCalmZones |-> <<>>])
    IN [end EXCEPT !.calmScore = Max(0, Min(Scale, end.calmScore))]

(***************************************************************************)
(* RoutingService.createFallbackRoute                                      *)
(*                                                                         *)
(* A RoutePoint is [latitude, longitude]: metres along the meridian and    *)
(* metres east of it.  The start and the end are on the meridian, so a     *)
(* waypoint leaves it only by its longitude variation; distances from a    *)
(* waypoint are measured along the meridian.  draws[i] is what the two     *)
(* Math.random() calls of iteration i give, as the variations in metres.   *)
(* The segment durations and instruction texts, functions of the segments, *)
(* are not kept.                                                           *)
(***************************************************************************)
MinSteps == 3

MaxSteps == 8

StepLength == 200

\* Mutant of FallbackSteps: Math.round in place of Math.floor.
FallbackStepsRounded(distance) ==
    Max(MinSteps, Min(MaxSteps, (2 * distance + StepLength) \div (2 * StepLength)))

\* line 1168
FallbackSteps(distance) == Max(MinSteps, Min(MaxSteps, distance \div StepLength))

\* start + (end - start) * (i / steps): a whole number of metres for the
\* trips of the harnesses.
Interpolate(from, to, i, steps) == from + ((to - from) * i) \div steps

generateIntermediateWaypoints(start, end, draws) ==
    LET distance == calculateDistance(start, end)
        steps == FallbackSteps(distance)
    IN [k \in 1..(steps + 1) |->
           [latitude |-> Interpolate(start, end, k - 1, steps) + draws[k - 1].lat,
            longitude |-> Interpolate(0, 0, k - 1, steps) + draws[k - 1].lng]]

\* the for loop of lines 1126-1140 (and of 997-1012 in optimizeRoute)
RouteSegments(waypoints) ==
    [i \in 1..(Len(waypoints) - 1) |->
        [start |-> waypoints[i], end |-> waypoints[i + 1],
         distance |-> calculateDistance(waypoints[i].latitude, waypoints[i + 1].latitude)]]

Latitudes(waypoints) == [i \in 1..Len(waypoints) |-> waypoints[i].latitude]

createFallbackRoute(start, end, calmZones, stressZones, now, draws) ==
    LET distance == calculateDistance(start, end)
        waypoints == generateIntermediateWaypoints(start, end, draws)
        segments == RouteSegments(waypoints)
        analysis == analyzeRouteOptimization(Latitudes(waypoints), calmZones, stressZones)
    IN [id |-> <<"route", now>>,
        start |-> start,
        end |-> end,
        waypoints |-> waypoints,
        segments |-> segments,
        totalDistance |-> distance,
        calmScore |-> analysis.calmScore,
        avoidsStressZones |-> analysis.avoidsStressZones,
        includesCalmZones |-> analysis.includesCalmZones]

(***************************************************************************)
(* RoutingService.getWalkingRoute, getBasicRoute, getGraphHopperRoute and  *)
(* optimizeRoute                                                           *)
(*                                                                         *)
(* A response body is what response.json() gives: for OpenRouteService     *)
(* [features], a list of [coordinates, summary] with summary <<>> when it  *)
(* is missing; for GraphHopper [paths], a list of [points, distance].  A   *)
(* coordinate is <<longitude, latitude>>.  A function that can throw       *)
(* gives [threw |-> TRUE] or [threw |-> FALSE, value |-> what it returns]. *)
(***************************************************************************)
Threw == [threw |-> TRUE]

Returned(v) == [threw |-> FALSE, value |-> v]

\* optimizeRoute (lines 973-1029): basicRoute.features[0], waypoints[0] and
\* properties.summary.distance throw a TypeError when the thing read from
\* is undefined.
optimizeRoute(basicRoute, calmZones, stressZones, now) ==
    IF basicRoute.features = <<>> THEN Threw
    ELSE LET route == basicRoute.features[1]
             geometry == route.coordinates
             waypoints == [i \in 1..Len(geometry) |->
                              [longitude |-> geometry[i][1], latitude |-> geometry[i][2]]]
             segments == RouteSegments(waypoints)
             analysis == analyzeRouteOptimization(Latitudes(waypoints), calmZones,
                                                  stressZones)
         IN IF waypoints = <<>> \/ route.summary = <<>> THEN Threw
            ELSE Returned([id |-> <<"route", now>>,
                           start |-> waypoints[1].latitude,
                           end |-> waypoints[Len(waypoints)].latitude,
                           waypoints |-> waypoints,
                           segments |-> segments,
                           totalDistance |-> route.summary[1].distance,
                           calmScore |-> analysis.calmScore,
                           avoidsStressZones |-> analysis.avoidsStressZones,
                           includesCalmZones |-> analysis.includesCalmZones])

\* What fetch and response.json() come to (lines 914-921 and 940-946): the
\* request fails, the status is not ok, the body is not JSON, or a body.
FailedResponses == {[kind |-> "networkError"], [kind |-> "httpError"], [kind |-> "invalidJson"]}

\* The conversion of lines 948-965; data.paths[0] throws when there is no
\* path, and the catch of line 966 throws 'All routing services failed'.
ConvertGraphHopper(data) ==
    IF data.paths = <<>> THEN Threw
    ELSE Returned([features |->
                      << [coordinates |-> data.paths[1].points,
                          summary |-> << [distance |-> data.paths[1].distance] >>] >>])

\* Mutant of SettleAfterFailure: the error is thrown on.
SettleAfterFailureRethrow(w, draws) ==
    [w EXCEPT !.pc = "done", !.outcome = << [status |-> "rejected"] >>]

\* The catch of getWalkingRoute (lines 893-897).
SettleAfterFailure(w, draws) ==
    [w EXCEPT !.pc = "done",
              !.built = Append(@, "createFallbackRoute"),
              !.outcome = << [status |-> "fulfilled",
                              route |-> createFallbackRoute(w.start, w.end, w.calmZones,
                                            w.stressZones, Len(w.requests), draws)] >>]

\* Mutant of SettleWith: the fallback route is returned whatever the
\* processing comes to.
SettleWithFallbackAlways(w, basicRoute, draws) ==
    SettleAfterFailure([w EXCEPT !.built = Append(@, "optimizeRoute")], draws)

\* Lines 887-892, from the basic route on.
SettleWith(w, basicRoute, draws) ==
    LET optimizedRoute == optimizeRoute(basicRoute, w.calmZones, w.stressZones,
                                        Len(w.requests))
        tried == [w EXCEPT !.built = Append(@, "optimizeRoute")]
    IN IF optimizedRoute.threw
       THEN SettleAfterFailure([tried EXCEPT !.failures = Append(@, "processing")], draws)
       ELSE [tried EXCEPT !.pc = "done",
                          !.outcome = << [status |-> "fulfilled",
                                          route |-> optimizedRoute.value] >>]

(***************************************************************************)
(* InsightsService.generateRouteSuggestion                                 *)
(*                                                                         *)
(* A zone's score is in units of 1/Scale; the calmScore of the suggestion  *)
(* is in units of 1/(10 * Scale), in which 0.3 times a zone's score is a   *)
(* whole number.                                                           *)
(***************************************************************************)
NearbyLimit == 200

SuggestionOne == 10 * Scale

\* Mutant of BestZone: the first nearby zone is taken.
BestZoneFirst(nearbyZones) == nearbyZones[1]

\* nearbyCalmZones.reduce of lines 397-399
RECURSIVE ReduceBestZone(_, _, _)
ReduceBestZone(nearbyZones, i, best) ==
    IF i > Len(nearbyZones) THEN best
    ELSE ReduceBestZone(nearbyZones, i + 1,
             IF nearbyZones[i].score > best.score THEN nearbyZones[i] ELSE best)

BestZone(nearbyZones) == ReduceBestZone(nearbyZones, 2, nearbyZones[1])

\* the filters of lines 390-394 and 406-410
NearbyZones(zones, start, end) ==
    Filter(zones, LAMBDA zone : /\ calculateDistance(start, zone.center) < NearbyLimit
                                /\ calculateDistance(end, zone.center) < NearbyLimit)

generateRouteSuggestion(start, end, calmZones, stressZones, now) ==
    LET nearbyCalmZones == NearbyZones(calmZones, start, end)
        bestCalmZone == BestZone(nearbyCalmZones)
        waypoints == IF Len(nearbyCalmZones) > 0 THEN <<bestCalmZone.center>> ELSE <<>>
        withCalm == (SuggestionOne \div 2)
                       + (IF Len(nearbyCalmZones) > 0 THEN 3 * bestCalmZone.score ELSE 0)
        nearbyStressZones == NearbyZones(stressZones, start, end)
        calmScore == withCalm - Len(nearbyStressZones) * (SuggestionOne \div 5)
        totalDistance == calculateDistance(start, end)
    IN [id |-> <<"route", now>>,
        start |-> start,
        end |-> end,
        waypoints |-> waypoints,
        calmScore |-> Max(0, Min(SuggestionOne, calmScore)),
        estimatedDuration |-> (24 * totalDistance + 1000) \div 2000,
        avoidsStressZones |-> [i \in 1..Len(nearbyStressZones) |-> nearbyStressZones[i].id],
        includesCalmZones |-> [i \in 1..Len(nearbyCalmZones) |-> nearbyCalmZones[i].id]]

(***************************************************************************)
(* The clustering harness: clusterNearbyEntries applied to any entry list  *)
(* of at most MaxClusterInput entries, ids possibly repeated, at the two   *)
(* radii its callers use.                                                  *)
(***************************************************************************)
ClusterPlaces == {0, 30, 60, 100}

ClusterRadii == {30, 50}

ClusterInputs ==
    SeqsUpTo([id : 1..MaxClusterInput, loc : ClusterPlaces], MaxClusterInput)

(***************************************************************************)
(* The zone harness: a zone store that lives through a sequence of         *)
(* updateZonesFromSession calls, as the App's does through its walks.  It  *)
(* starts as one of the stores below; each call is given any session       *)
(* (entry ids distinct, as uuidv4 gives them), at most MaxEntries entries  *)
(* over all the sessions of a run, and every outcome of Math.random.  The  *)
(* returned arrays become the store.  zCall is the history of the last     *)
(* call.                                                                   *)
(***************************************************************************)
ZonePlaces == {0, 20, 65}

Suffixes == {1, 2}

StressSeed1 ==
    [id |-> <<"stress", 0, 1>>, center |-> 50, radius |-> 40,
     score |-> (19 * Scale) \div 20, count |-> 3, last |-> 9]

StressSeed2 ==
    [id |-> <<"stress", 0, 2>>, center |-> 80, radius |-> 30,
     score |-> Scale \div 2, count |-> 2, last |-> 0]

CalmSeed1 ==
    [id |-> <<"calm", 0, 1>>, center |-> 50, radius |-> 25,
     score |-> Scale, count |-> 5, last |-> 0]

CalmSeed2 ==
    [id |-> <<"calm", 0, 2>>, center |-> 80, radius |-> 30,
     score |-> Scale \div 10, count |-> 2, last |-> 9]

InitialStores ==
    { [heap |-> <<>>, calmZones |-> <<>>, stressZones |-> <<>>],
      [heap |-> <<StressSeed2, CalmSeed2>>, calmZones |-> <<2>>, stressZones |-> <<1>>],
      [heap |-> <<StressSeed1, StressSeed2, CalmSeed1, CalmSeed2>>,
       calmZones |-> <<3, 4>>, stressZones |-> <<1, 2>>] }

\* The entries of a session logged after `before` earlier entries: entry i
\* has id before + i.  Timestamps are not in list order (each odd entry
\* carries the later timestamp of its pair), so that the latest member of a
\* cluster is not always its last.
Timestamp(i) == IF i % 2 = 1 THEN i + 1 ELSE i - 1

MoodEntries(marks, before) ==
    [i \in 1..Len(marks) |->
        [id |-> before + i, loc |-> marks[i].loc, mood |-> marks[i].mood,
         noise |-> marks[i].noise, ts |-> before + Timestamp(i)]]

Marks(n) == UNION {[1..k -> [loc : ZonePlaces, mood : Moods, noise : {0}]] : k \in 1..n}

Deref(heap, zones) == [i \in 1..Len(zones) |-> heap[zones[i]]]

InitZones ==
    /\ \E store \in InitialStores :
          /\ zHeap = store.heap
          /\ zCalm = store.calmZones
          /\ zStress = store.stressZones
    /\ zUsed = 0
    /\ zSession = NoSession
    /\ zCall = NoCall
    /\ ClusterIdle
    /\ SummaryIdle
    /\ RouteIdle
    /\ AppIdle
    /\ FallbackIdle
    /\ WalkingIdle
    /\ SuggestIdle
    /\ GpsIdle

\* A walk is recorded: the next session to classify.  The record of the
\* previous call is dropped.
RecordSession ==
    /\ ~zSession.pending
    /\ zUsed < MaxEntries
    /\ \E marks \in Marks(MaxEntries - zUsed) :
         /\ zSession' = [pending |-> TRUE, moodEntries |-> MoodEntries(marks, zUsed)]
         /\ zUsed' = zUsed + Len(marks)
    /\ zCall' = NoCall
    /\ UNCHANGED <<zHeap, zCalm, zStress>>
    /\ UNCHANGED <<clusterVars, summaryVars, routeVars, appVars,
                 fallbackVars, walkingVars, suggestVars, gpsVars>>

\* updateZonesFromSession(session, calmZones, stressZones), its result
\* stored as endWalk stores it.
UpdateZones ==
    /\ zSession.pending
    /\ LET session == [moodEntries |-> zSession.moodEntries]
           dry == updateZonesFromSession(session, zCalm, zStress, zHeap, zUsed,
                                         [k \in 1..MaxEntries |-> 1])
       IN \E draws \in [1..dry.created -> Suffixes] :
            LET r == updateZonesFromSession(session, zCalm, zStress, zHeap, zUsed, draws)
            IN /\ zHeap' = r.heap
               /\ zCalm' = r.calmZones
               /\ zStress' = r.stressZones
               /\ zCall' = [made |-> TRUE, session |-> session,
                            existingCalmZones |-> zCalm,
                            existingStressZones |-> zStress,
                            heapBefore |-> zHeap,
                            clusters |-> r.clusters, steps |-> r.steps]
    /\ zSession' = NoSession
    /\ UNCHANGED zUsed
    /\ UNCHANGED <<clusterVars, summaryVars, routeVars, appVars,
                 fallbackVars, walkingVars, suggestVars, gpsVars>>

NextZones == RecordSession \/ UpdateZones

SpecZones == InitZones /\ [][NextZones]_vars

InitCluster ==
    /\ clIn \in [entries : ClusterInputs, radiusMeters : ClusterRadii]
    /\ clOut = NotRun
    /\ ZoneIdle
    /\ SummaryIdle
    /\ RouteIdle
    /\ AppIdle
    /\ FallbackIdle
    /\ WalkingIdle
    /\ SuggestIdle
    /\ GpsIdle

RunCluster ==
    /\ clOut = NotRun
    /\ clOut' = clusterNearbyEntries(clIn.entries, clIn.radiusMeters)
    /\ UNCHANGED clIn
    /\ UNCHANGED <<zoneVars, summaryVars, routeVars, appVars,
                 fallbackVars, walkingVars, suggestVars, gpsVars>>

NextCluster == RunCluster

SpecCluster == InitCluster /\ [][NextCluster]_vars

DistinctIds(entries) ==
    \A i, j \in 1..Len(entries) : entries[i].id = entries[j].id => i = j

MemberCount(clusters, e) ==
    SumSeq([k \in 1..Len(clusters) |->
               CountIn(clusters[k].entries, LAMBDA m : m = e)])

\* C2: for an entry list with pairwise distinct ids, the result of
\* clusterNearbyEntries is a partition of the input: no cluster is empty,
\* every input entry is a member of exactly one cluster (once), and every
\* member of a cluster is an input entry.
C2_ClustersPartitionInput ==
    (clOut # NotRun /\ DistinctIds(clIn.entries)) =>
        /\ \A k \in 1..Len(clOut) : Len(clOut[k].entries) >= 1
        /\ \A i \in 1..Len(clIn.entries) : MemberCount(clOut, clIn.entries[i]) = 1
        /\ \A k \in 1..Len(clOut) : Range(clOut[k].entries) \subseteq Range(clIn.entries)

C2_Witness ==
    /\ clOut # NotRun
    /\ DistinctIds(clIn.entries)
    /\ Len(clIn.entries) = 3
    /\ Len(clOut) = 2
    /\ \E k \in 1..Len(clOut) : Len(clOut[k].entries) = 2

\* The entries placed in the clusters before cluster k.
PlacedBefore(clusters, k) ==
    UNION {Range(clusters[j].entries) : j \in 1..(k - 1)}

\* The position in the input of the earliest entry not in the set placed.
EarliestUnplaced(entries, placed) ==
    CHOOSE i \in 1..Len(entries) :
        /\ entries[i] \notin placed
        /\ \A h \in 1..(i - 1) : entries[h] \in placed

\* C18: for an entry list with pairwise distinct ids, each cluster's anchor
\* is its first member and is the earliest input entry not placed in an
\* earlier cluster; the cluster's center is the anchor's location; every
\* member is at distance <= R of the center; and every input entry not
\* placed in an earlier cluster and at distance <= R of the anchor is a
\* member.
C18_ClusterIsAnchorNeighbourhood ==
    (clOut # NotRun /\ DistinctIds(clIn.entries)) =>
        \A k \in 1..Len(clOut) :
            LET placed == PlacedBefore(clOut, k)
                anchor == clOut[k].entries[1]
            IN /\ \E i \in 1..Len(clIn.entries) : clIn.entries[i] \notin placed
               /\ anchor = clIn.entries[EarliestUnplaced(clIn.entries, placed)]
               /\ clOut[k].center = anchor.loc
               /\ \A m \in 1..Len(clOut[k].entries) :
                      calculateDistance(clOut[k].center, clOut[k].entries[m].loc)
                          <= clIn.radiusMeters
               /\ \A i \in 1..Len(clIn.entries) :
                      (/\ clIn.entries[i] \notin placed
                       /\ calculateDistance(anchor.loc, clIn.entries[i].loc)
                              <= clIn.radiusMeters)
                          => clIn.entries[i] \in Range(clOut[k].entries)

\* two clusters; the first has a member exactly R from its center, and that
\* member is also within R of the second anchor, which is not the first
\* unplaced entry's neighbour
C18_Witness ==
    /\ clOut # NotRun
    /\ DistinctIds(clIn.entries)
    /\ Len(clIn.entries) = 3
    /\ Len(clOut) = 2
    /\ Len(clOut[1].entries) = 2
    /\ calculateDistance(clOut[1].center, clOut[1].entries[2].loc) = clIn.radiusMeters
    /\ calculateDistance(clOut[2].center, clOut[1].entries[2].loc) <= clIn.radiusMeters
    /\ clOut[2].center # clOut[1].center

(***************************************************************************)
(* What the properties of updateZonesFromSession speak of, read off the   *)
(* record of the last call.  Step n of a call is clusters[n], with the     *)
(* state before it (steps[n]) and after it (steps[n + 1]).                 *)
(***************************************************************************)
Steps == 1..Len(zCall.clusters)

StressedIn(c) == Cardinality({i \in 1..Len(c.entries) : c.entries[i].mood = "stressed"})

CalmIn(c) == Cardinality({i \in 1..Len(c.entries) : c.entries[i].mood = "calm"})

\* rate > 0.6, as n / size > 6 / 10
StressCandidate(c) == Len(c.entries) >= 2 /\ 10 * StressedIn(c) > 6 * Len(c.entries)

CalmCandidate(c) ==
    Len(c.entries) >= 2 /\ ~StressCandidate(c) /\ 10 * CalmIn(c) > 6 * Len(c.entries)

StressView(st) == Deref(st.heap, st.stressZones)

CalmView(st) == Deref(st.heap, st.calmZones)

LatestIn(c) ==
    CHOOSE t \in {c.entries[i].ts : i \in 1..Len(c.entries)} :
        \A i \in 1..Len(c.entries) : c.entries[i].ts <= t

\* The zones of one kind before and after a step, and whether the step
\* merged the cluster c into the zone at position i: that zone alone
\* changed, by the merge rule.
MergedAt(before, after, c, i) ==
    /\ Len(after) = Len(before)
    /\ \A j \in 1..Len(before) : j # i => after[j] = before[j]
    /\ after[i].count = before[i].count + Len(c.entries)
    /\ after[i].score = (IF before[i].score + Scale \div 10 > Scale
                         THEN Scale ELSE before[i].score + Scale \div 10)
    /\ after[i].last = (IF before[i].last >= LatestIn(c) THEN before[i].last
                                                          ELSE LatestIn(c))
    /\ after[i].id = before[i].id
    /\ after[i].center = before[i].center
    /\ after[i].radius = before[i].radius

\* Whether the step appended to the zones of one kind exactly one zone,
\* made from the cluster c with n of its entries carrying the kind's mood.
CreatedFrom(before, after, c, n) ==
    /\ Len(after) = Len(before) + 1
    /\ \A j \in 1..Len(before) : after[j] = before[j]
    /\ LET zone == after[Len(after)]
       IN /\ zone.radius = 30
          /\ zone.center = c.center
          /\ zone.center = c.entries[1].loc
          /\ zone.score * Len(c.entries) = n * Scale
          /\ zone.count = Len(c.entries)
          /\ zone.last = LatestIn(c)

\* C3: a cluster of fewer than 2 members changes no zone; one of at least
\* 2 members with stressRate > 0.6 changes (updates or extends) the stress
\* store and leaves the calm store as it was; otherwise one of at least 2
\* members with calmRate > 0.6 changes the calm store and leaves the stress
\* store as it was; any other cluster changes nothing.
C3_ClusterClassification ==
    zCall.made =>
        \A n \in Steps :
            LET c == zCall.clusters[n]
                before == zCall.steps[n]
                after == zCall.steps[n + 1]
            IN /\ Len(c.entries) < 2 => after = before
               /\ StressCandidate(c) =>
                     /\ StressView(after) # StressView(before)
                     /\ CalmView(after) = CalmView(before)
               /\ CalmCandidate(c) =>
                     /\ CalmView(after) # CalmView(before)
                     /\ StressView(after) = StressView(before)
               /\ (~StressCandidate(c) /\ ~CalmCandidate(c)) => after = before
               /\ (StressView(after) = StressView(before)
                      \/ CalmView(after) = CalmView(before))

C3_Witness ==
    /\ zCall.made
    /\ \E n \in Steps : StressCandidate(zCall.clusters[n])
    /\ \E n \in Steps : CalmCandidate(zCall.clusters[n])

\* C4: a qualifying cluster that is merged (no zone of its kind is added)
\* changes exactly one existing zone of its kind: count grows by the
\* cluster's member count, score becomes min(1, score + 0.1), the
\* last-timestamp becomes the maximum of the old one and the members'.
C4_MergeRule ==
    zCall.made =>
        \A n \in Steps :
            LET c == zCall.clusters[n]
                before == zCall.steps[n]
                after == zCall.steps[n + 1]
            IN /\ (StressCandidate(c) /\ Len(after.stressZones) = Len(before.stressZones)) =>
                     \E i \in 1..Len(before.stressZones) :
                         MergedAt(StressView(before), StressView(after), c, i)
               /\ (CalmCandidate(c) /\ Len(after.calmZones) = Len(before.calmZones)) =>
                     \E i \in 1..Len(before.calmZones) :
                         MergedAt(CalmView(before), CalmView(after), c, i)

\* a merge that saturates the score and keeps the older last-timestamp,
\* with a second zone of the kind within 50 m left alone
C4_Witness ==
    /\ zCall.made
    /\ \E n \in Steps :
          LET c == zCall.clusters[n]
              before == zCall.steps[n]
              after == zCall.steps[n + 1]
          IN /\ StressCandidate(c)
             /\ Len(after.stressZones) = Len(before.stressZones)
             /\ Len(before.stressZones) = 2
             /\ \A i \in 1..2 :
                   calculateDistance(StressView(before)[i].center, c.center) < 50
             /\ StressView(after)[1].score = Scale
             /\ StressView(before)[1].score < Scale
             /\ StressView(after)[1].last > LatestIn(c)

\* C6: a qualifying cluster with every zone of its kind farther than 50 m
\* from its center appends exactly one zone to that kind's store: radius 30,
\* the cluster's center, score the cluster's rate, count its member count,
\* last-timestamp the latest of its members.
C6_NewZone ==
    zCall.made =>
        \A n \in Steps :
            LET c == zCall.clusters[n]
                before == zCall.steps[n]
                after == zCall.steps[n + 1]
            IN /\ (/\ StressCandidate(c)
                   /\ \A i \in 1..Len(before.stressZones) :
                         calculateDistance(StressView(before)[i].center, c.center) > 50) =>
                     CreatedFrom(StressView(before), StressView(after), c, StressedIn(c))
               /\ (/\ CalmCandidate(c)
                   /\ \A i \in 1..Len(before.calmZones) :
                         calculateDistance(CalmView(before)[i].center, c.center) > 50) =>
                     CreatedFrom(CalmView(before), CalmView(after), c, CalmIn(c))

\* a calm zone created beside an existing one, from a cluster whose rate is
\* below 1 and whose latest member is not its last
C6_Witness ==
    /\ zCall.made
    /\ \E n \in Steps :
          LET c == zCall.clusters[n]
              before == zCall.steps[n]
              after == zCall.steps[n + 1]
          IN /\ CalmCandidate(c)
             /\ Len(before.calmZones) >= 1
             /\ \A i \in 1..Len(before.calmZones) :
                   calculateDistance(CalmView(before)[i].center, c.center) > 50
             /\ Len(after.calmZones) = Len(before.calmZones) + 1
             /\ CalmIn(c) < Len(c.entries)
             /\ c.entries[Len(c.entries)].ts < LatestIn(c)
             /\ \E i \in 1..Len(c.entries) : c.entries[i].loc # c.center

\* C19: a qualifying cluster is merged (no zone of its kind is added)
\* whenever some zone of its kind has its center at distance <= 50 of the
\* cluster's center, and a zone of its kind is added only when every zone
\* of the kind is at distance > 50.
C19_MergeWithinClosed50 ==
    zCall.made =>
        \A n \in Steps :
            LET c == zCall.clusters[n]
                before == zCall.steps[n]
                after == zCall.steps[n + 1]
            IN /\ StressCandidate(c) =>
                     ((\E i \in 1..Len(before.stressZones) :
                          calculateDistance(StressView(before)[i].center, c.center) <= 50)
                        <=> Len(after.stressZones) = Len(before.stressZones))
               /\ CalmCandidate(c) =>
                     ((\E i \in 1..Len(before.calmZones) :
                          calculateDistance(CalmView(before)[i].center, c.center) <= 50)
                        <=> Len(after.calmZones) = Len(before.calmZones))

\* Whether step n of the last call merged its cluster into the zone at
\* position i of the zones `view` gives: the cluster qualifies for the kind,
\* the step added no zone, and the zone is the first one found.
MergedInto(n, i, candidate, view(_)) ==
    LET c == zCall.clusters[n]
        before == view(zCall.steps[n])
        after == view(zCall.steps[n + 1])
    IN /\ candidate
       /\ Len(after) = Len(before)
       /\ i <= Len(before)
       /\ calculateDistance(before[i].center, c.center) < 50
       /\ \A h \in 1..(i - 1) : calculateDistance(before[h].center, c.center) >= 50

\* The zones of one kind as a call was given them (before) and as it
\* returned them (after): none is removed, moved in the list, given another
\* id, center or radius, and those with untouched(i) are returned as given.
ZonesKept(before, after, untouched(_)) ==
    /\ Len(after) >= Len(before)
    /\ \A i \in 1..Len(before) :
          /\ after[i].id = before[i].id
          /\ after[i].center = before[i].center
          /\ after[i].radius = before[i].radius
          /\ untouched(i) => after[i] = before[i]

\* C20: a call of updateZonesFromSession returns every zone it was given,
\* at its position in its store and with its id, center and radius; a zone
\* that no cluster of the call was merged into is returned with every field
\* as given.
C20_ExistingZonesKept ==
    zCall.made =>
        /\ ZonesKept(Deref(zCall.heapBefore, zCall.existingStressZones),
                     Deref(zHeap, zStress),
                     LAMBDA i : \A n \in Steps :
                         ~MergedInto(n, i, StressCandidate(zCall.clusters[n]), StressView))
        /\ ZonesKept(Deref(zCall.heapBefore, zCall.existingCalmZones),
                     Deref(zHeap, zCalm),
                     LAMBDA i : \A n \in Steps :
                         ~MergedInto(n, i, CalmCandidate(zCall.clusters[n]), CalmView))

\* a call given two stress zones merged into the first, whose radius is not
\* that of new zones, left the second as it was and added a third
C20_Witness ==
    /\ zCall.made
    /\ Len(zCall.existingStressZones) = 2
    /\ Len(zStress) = 3
    /\ zHeap[zStress[1]].count > zCall.heapBefore[zCall.existingStressZones[1]].count
    /\ zHeap[zStress[2]] = zCall.heapBefore[zCall.existingStressZones[2]]
    /\ zHeap[zStress[1]].radius # NewZoneRadius

\* The zones of a store that the run started with: their ids carry the
\* time 0, before any call.  They stay in the store with their centers.
GivenZones(zones) == {i \in 1..Len(zones) : zHeap[zones[i]].id[2] = 0}

ApartIn(zones, among) ==
    \A i, j \in among :
        i # j => calculateDistance(zHeap[zones[i]].center, zHeap[zones[j]].center) >= 50

\* C24: if any two zones of each store the run started with have centers
\* at least 50 m apart, then after any sequence of updateZonesFromSession
\* calls any two zones of the same store have centers at least 50 m apart.
C24_ZonesStayApart ==
    (ApartIn(zStress, GivenZones(zStress)) /\ ApartIn(zCalm, GivenZones(zCalm))) =>
        /\ ApartIn(zStress, 1..Len(zStress))
        /\ ApartIn(zCalm, 1..Len(zCalm))

\* a call from an empty store whose first stress cluster made a zone and
\* whose second, 45 m from it, was merged into that zone
C24_Witness ==
    /\ zCall.made
    /\ Len(zCall.existingStressZones) = 0
    /\ Len(zCall.clusters) = 2
    /\ \A n \in Steps : StressCandidate(zCall.clusters[n])
    /\ calculateDistance(zCall.clusters[1].center, zCall.clusters[2].center) = 45
    /\ Len(zStress) = 1
    /\ zHeap[zStress[1]].count = 4

AllZones(heap, zones) == {heap[zones[i]] : i \in 1..Len(zones)}

\* The zones of one kind as a call was given them (before) and as the store
\* holds them after it: each is still there, at its place and under its id,
\* with count and last-timestamp no smaller.
NeverDecreased(before, after) ==
    /\ Len(after) >= Len(before)
    /\ \A i \in 1..Len(before) :
          /\ after[i].id = before[i].id
          /\ after[i].count >= before[i].count
          /\ after[i].last >= before[i].last

\* C5: through any sequence of updateZonesFromSession calls from a store
\* with scores in [0,1], every zone's score stays in [0,1], and no zone's
\* count or last-timestamp is smaller after a call than it was before it.
C5_ScoresBoundedCountsMonotone ==
    /\ \A z \in AllZones(zHeap, zCalm) \cup AllZones(zHeap, zStress) :
          z.score >= 0 /\ z.score <= Scale
    /\ zCall.made =>
          /\ NeverDecreased(Deref(zCall.heapBefore, zCall.existingStressZones),
                            Deref(zHeap, zStress))
          /\ NeverDecreased(Deref(zCall.heapBefore, zCall.existingCalmZones),
                            Deref(zHeap, zCalm))

\* a later call merges into a zone that an earlier call of the run created
\* with score 1
C5_Witness ==
    /\ zCall.made
    /\ \E i \in 1..Len(zCall.existingStressZones) :
          LET old == zCall.heapBefore[zCall.existingStressZones[i]]
              new == zHeap[zStress[i]]
          IN /\ old.id[2] > 0
             /\ new.count > old.count
             /\ new.last > old.last
             /\ old.score = Scale
             /\ new.score = Scale

DistinctZoneIds(heap, zones) ==
    \A i, j \in 1..Len(zones) : heap[zones[i]].id = heap[zones[j]].id => i = j

\* C7: the zone ids within the calm store and within the stress store are
\* pairwise distinct after any sequence of calls (the stores start so).
C7_ZoneIdsDistinct ==
    DistinctZoneIds(zHeap, zCalm) /\ DistinctZoneIds(zHeap, zStress)

\* C8: after a call, every zone of the existingCalmZones and
\* existingStressZones arrays it was given has the field values it had
\* before the call.
C8_InputsUntouched ==
    zCall.made =>
        /\ Deref(zHeap, zCall.existingCalmZones)
              = Deref(zCall.heapBefore, zCall.existingCalmZones)
        /\ Deref(zHeap, zCall.existingStressZones)
              = Deref(zCall.heapBefore, zCall.existingStressZones)

(***************************************************************************)
(* The scenario harness: updateZonesFromSession called once, as UpdateZones *)
(* calls it, with a session of 10 entries: 7 stressed ones, each at 0 or   *)
(* 20, and 3 calm ones, each at 500 or 530,                                *)
(* in one of several orders; the store is empty or holds zones more        *)
(* than 50 m from every entry.                                             *)
(***************************************************************************)
StressedSpots == {0, 20}

CalmSpots == {500, 530}

\* the positions of the calm entries in the list
CalmSlots == { {1, 2, 3}, {8, 9, 10}, {1, 5, 10}, {2, 4, 6} }

ScenarioStores ==
    { [heap |-> <<>>, calmZones |-> <<>>, stressZones |-> <<>>],
      [heap |-> <<StressSeed2, CalmSeed2>>, calmZones |-> <<2>>, stressZones |-> <<1>>] }

ScenarioMarks(slots, stressedAt, calmAt) ==
    [i \in 1..10 |->
        IF i \in slots
        THEN [loc |-> calmAt[Cardinality({j \in slots : j <= i})],
              mood |-> "calm", noise |-> 0]
        ELSE [loc |-> stressedAt[Cardinality((1..i) \ slots)],
              mood |-> "stressed", noise |-> 0]]

InitScenario ==
    /\ \E store \in ScenarioStores :
          /\ zHeap = store.heap
          /\ zCalm = store.calmZones
          /\ zStress = store.stressZones
    /\ \E slots \in CalmSlots,
          stressedAt \in [1..7 -> StressedSpots],
          calmAt \in [1..3 -> CalmSpots] :
            zSession = [pending |-> TRUE,
                        moodEntries |-> MoodEntries(ScenarioMarks(slots, stressedAt, calmAt), 0)]
    /\ zUsed = 10
    /\ zCall = NoCall
    /\ ClusterIdle
    /\ SummaryIdle
    /\ RouteIdle
    /\ AppIdle
    /\ FallbackIdle
    /\ WalkingIdle
    /\ SuggestIdle
    /\ GpsIdle

NextScenario == UpdateZones

SpecScenario == InitScenario /\ [][NextScenario]_vars

\* The session of the last call: 10 entries, 7 of them stressed and within
\* 20 m of each other, 3 calm and within 30 m of each other, the two groups
\* more than 50 m apart, and no zone given to the call within 50 m of an
\* entry.
ScenarioCall ==
    LET entries == zCall.session.moodEntries
        stressed == {i \in 1..Len(entries) : entries[i].mood = "stressed"}
        calm == {i \in 1..Len(entries) : entries[i].mood = "calm"}
        zones == Range(Deref(zCall.heapBefore, zCall.existingStressZones))
                    \cup Range(Deref(zCall.heapBefore, zCall.existingCalmZones))
    IN /\ zCall.made
       /\ Len(entries) = 10
       /\ Cardinality(stressed) = 7
       /\ Cardinality(calm) = 3
       /\ \A i, j \in stressed : calculateDistance(entries[i].loc, entries[j].loc) <= 20
       /\ \A i, j \in calm : calculateDistance(entries[i].loc, entries[j].loc) <= 30
       /\ \A i \in stressed : \A j \in calm :
             calculateDistance(entries[i].loc, entries[j].loc) > 50
       /\ \A z \in zones : \A i \in 1..Len(entries) :
             calculateDistance(z.center, entries[i].loc) > 50

\* The call added exactly one zone to each store and changed no other:
\* the stress zone with the score and count given, the calm zone with score
\* 1.0 and count 3.
ScenarioResult(stressScore, stressCount) ==
    LET stressBefore == Deref(zCall.heapBefore, zCall.existingStressZones)
        calmBefore == Deref(zCall.heapBefore, zCall.existingCalmZones)
        stressAfter == Deref(zHeap, zStress)
        calmAfter == Deref(zHeap, zCalm)
    IN /\ Len(stressAfter) = Len(stressBefore) + 1
       /\ SubSeq(stressAfter, 1, Len(stressBefore)) = stressBefore
       /\ stressAfter[Len(stressAfter)].score = stressScore
       /\ stressAfter[Len(stressAfter)].count = stressCount
       /\ Len(calmAfter) = Len(calmBefore) + 1
       /\ SubSeq(calmAfter, 1, Len(calmBefore)) = calmBefore
       /\ calmAfter[Len(calmAfter)].score = Scale
       /\ calmAfter[Len(calmAfter)].count = 3

\* C23 as stated: in the scenario the new stress zone has score 0.7 and
\* count 7, and a calm zone of score 1.0 and count 3 is created.
C23_ScenarioScoreIsSessionShare ==
    ScenarioCall => ScenarioResult((7 * Scale) \div 10, 7)

\* C23, amended: in the scenario exactly one stress zone is created, with
\* score 1.0 (the rate of its cluster, 7 stressed of 7) and count 7, and one
\* calm zone with score 1.0 and count 3.
C23_ScenarioScoreIsClusterRate ==
    ScenarioCall => ScenarioResult(Scale, 7)

\* the scenario with the calm entries between the stressed ones, stressed
\* entries at both spots, and a store that already holds zones
C23_Witness ==
    /\ ScenarioCall
    /\ zCall.session.moodEntries[1].mood = "calm"
    /\ zCall.session.moodEntries[10].mood = "calm"
    /\ \E i, j \in 1..10 : /\ zCall.session.moodEntries[i].mood = "stressed"
                           /\ zCall.session.moodEntries[j].mood = "stressed"
                           /\ zCall.session.moodEntries[i].loc # zCall.session.moodEntries[j].loc
    /\ Len(zCall.existingStressZones) = 1
    /\ Len(zStress) = 2

(***************************************************************************)
(* The summary harness: generateSessionInsights applied to any session of  *)
(* at most MaxSummaryEntries entries, with the counters the entries give   *)
(* or counters that disagree with them.                                    *)
(***************************************************************************)
SummaryHours == {5, 6, 12, 18}

SummarySettings == { [noise |-> 50, loc |-> 0], [noise |-> 70, loc |-> 65] }

CounterSkews == { <<0, 0>>, <<1, 0>>, <<0, 1>> }

SummarySession(marks, skew) ==
    LET entries == [i \in 1..Len(marks) |->
                       [id |-> i, loc |-> marks[i].setting.loc, mood |-> marks[i].mood,
                        noise |-> marks[i].setting.noise, ts |-> marks[i].hour]]
    IN [moodEntries |-> entries,
        stressCount |-> CountIn(entries, LAMBDA e : e.mood = "stressed") + skew[1],
        calmCount |-> CountIn(entries, LAMBDA e : e.mood = "calm") + skew[2],
        neutralCount |-> CountIn(entries, LAMBDA e : e.mood = "neutral")]

InitSummary ==
    /\ \E marks \in SeqsUpTo([mood : Moods, hour : SummaryHours, setting : SummarySettings],
                             MaxSummaryEntries),
          skew \in CounterSkews :
            smIn = SummarySession(marks, skew)
    /\ smOut = NotRun
    /\ ClusterIdle
    /\ ZoneIdle
    /\ RouteIdle
    /\ AppIdle
    /\ FallbackIdle
    /\ WalkingIdle
    /\ SuggestIdle
    /\ GpsIdle

Summarise ==
    /\ smOut = NotRun
    /\ smOut' = generateSessionInsights(smIn)
    /\ UNCHANGED smIn
    /\ UNCHANGED <<clusterVars, zoneVars, routeVars, appVars,
                 fallbackVars, walkingVars, suggestVars, gpsVars>>

NextSummary == Summarise

SpecSummary == InitSummary /\ [][NextSummary]_vars

\* C9: generateSessionInsights returns exactly "No mood data recorded for
\* this walk." for a session without mood entries, whatever its counters
\* are, and a different, non-empty text for a session with entries.
C9_NoDataIffNoEntries ==
    smOut # NotRun =>
        /\ Len(smIn.moodEntries) = 0 => smOut = NoDataSummary
        /\ Len(smIn.moodEntries) > 0 =>
              /\ Len(smOut) >= 1
              /\ \A i \in 1..Len(smOut) :
                    smOut[i].text # "No mood data recorded for this walk."

\* no entries, with a counter that is not 0
C9_Witness ==
    /\ smOut # NotRun
    /\ Len(smIn.moodEntries) = 0
    /\ smIn.stressCount > 0
    /\ smOut = NoDataSummary

\* The hours of each period, and the entries of the session in a period
\* (by position in the list), counted from the session itself.
PeriodHours ==
    [morning |-> 6..11, afternoon |-> 12..17, evening |-> (0..5) \cup (18..23)]

PeriodNames == {"morning", "afternoon", "evening"}

EntriesAt(name) ==
    {i \in 1..Len(smIn.moodEntries) : smIn.moodEntries[i].ts % 24 \in PeriodHours[name]}

StressedAt(name) ==
    {i \in EntriesAt(name) : smIn.moodEntries[i].mood = "stressed"}

\* rate(a) < rate(b), a rate being stressed/total, 0 for a period without
\* entries
LowerRate(a, b) ==
    LET total(n) == IF EntriesAt(n) = {} THEN 1 ELSE Cardinality(EntriesAt(n))
    IN Cardinality(StressedAt(a)) * total(b) < Cardinality(StressedAt(b)) * total(a)

\* rate(name) < low / 10, and rate(name) > high / 10
RateBelow(name, low) ==
    EntriesAt(name) = {}
        \/ 10 * Cardinality(StressedAt(name)) < low * Cardinality(EntriesAt(name))

RateAbove(name, high) ==
    /\ EntriesAt(name) # {}
    /\ 10 * Cardinality(StressedAt(name)) > high * Cardinality(EntriesAt(name))

TimeSentences ==
    {i \in 1..Len(smOut) :
        smOut[i].text = "Consider walking more in the <period> when stress levels are lower."}

BucketOf(name) ==
    IF name = "morning" THEN morningEntries(smIn.moodEntries)
    ELSE IF name = "afternoon" THEN afternoonEntries(smIn.moodEntries)
    ELSE eveningEntries(smIn.moodEntries)

\* C21: the three time buckets hold, in list order, the entries whose hour
\* is in 6..11, in 12..17 and in the other hours, so that each entry is in
\* exactly one; the rate of a bucket is stressed/total, 0 for an empty
\* bucket; the summary of a session with entries has the time-of-day
\* sentence if and only if some bucket's rate is < 0.2 (the minimum is) and
\* some bucket's rate is > 0.4 (the maximum is), and the period it names
\* has a rate no other bucket's rate is below.
C21_TimeBuckets ==
    (smOut # NotRun /\ Len(smIn.moodEntries) > 0) =>
        /\ \A name \in PeriodNames :
              /\ Range(BucketOf(name)) = {smIn.moodEntries[i] : i \in EntriesAt(name)}
              /\ Len(BucketOf(name)) = Cardinality(EntriesAt(name))
              /\ LET r == PeriodStressRate(name, BucketOf(name))
                 IN IF EntriesAt(name) = {} THEN r.num = 0
                    ELSE r.num * Cardinality(EntriesAt(name))
                            = Cardinality(StressedAt(name)) * r.den
        /\ \A i \in 1..Len(smIn.moodEntries) :
              Cardinality({name \in PeriodNames : i \in EntriesAt(name)}) = 1
        /\ Cardinality(TimeSentences) <= 1
        /\ TimeSentences # {} <=>
              /\ \E name \in PeriodNames : RateBelow(name, 2)
              /\ \E name \in PeriodNames : RateAbove(name, 4)
        /\ \A i \in TimeSentences :
              /\ smOut[i].period \in PeriodNames
              /\ \A other \in PeriodNames : ~LowerRate(other, smOut[i].period)

\* the sentence names the afternoon, whose one entry is at 12h (the first
\* hour of the bucket) and not stressed; the entry at 6h is stressed and in
\* the morning bucket, the entry at 5h is in the evening bucket
C21_Witness ==
    /\ smOut # NotRun
    /\ Len(smIn.moodEntries) = 3
    /\ \E i \in TimeSentences : smOut[i].period = "afternoon"
    /\ \E i \in EntriesAt("afternoon") : smIn.moodEntries[i].ts % 24 = 12
    /\ \E i \in StressedAt("morning") : smIn.moodEntries[i].ts % 24 = 6
    /\ \E i \in EntriesAt("evening") : smIn.moodEntries[i].ts % 24 = 5

\* The session's entries reclustered at 50 m, and whether some cluster has
\* a stress rate, or a calm rate, above 0.6.
LocationClusters == clusterNearbyEntries(smIn.moodEntries, 50)

SomeStressArea ==
    \E k \in 1..Len(LocationClusters) :
        10 * StressedIn(LocationClusters[k]) > 6 * Len(LocationClusters[k].entries)

SomeCalmArea ==
    \E k \in 1..Len(LocationClusters) :
        10 * CalmIn(LocationClusters[k]) > 6 * Len(LocationClusters[k].entries)

HasStressAreaSentence ==
    \E i \in 1..Len(smOut) :
        smOut[i].text = "Some areas consistently triggered stress. Consider avoiding these locations."

HasCalmAreaSentence ==
    \E i \in 1..Len(smOut) :
        smOut[i].text = "Some areas consistently provided calm moments. These might be good rest spots."

LocationRule ==
    /\ HasStressAreaSentence <=> SomeStressArea
    /\ HasCalmAreaSentence <=> (~SomeStressArea /\ SomeCalmArea)

\* C22 as stated: for every session with entries, of any size, the summary
\* has the stress-area sentence if some cluster of the entries reclustered
\* at 50 m has a stress rate > 0.6, otherwise the calm-area sentence if some
\* cluster has a calm rate > 0.6, otherwise neither.
C22_LocationPatternAnySize ==
    (smOut # NotRun /\ Len(smIn.moodEntries) > 0) => LocationRule

\* C22, amended: the rule holds for every session of at least 3 entries; the
\* summary of a session of 1 or 2 entries has neither sentence.
C22_LocationPatternFromThreeEntries ==
    smOut # NotRun =>
        /\ Len(smIn.moodEntries) >= 3 => LocationRule
        /\ Len(smIn.moodEntries) \in 1..2 =>
              ~HasStressAreaSentence /\ ~HasCalmAreaSentence

\* three entries in two clusters, one of stress rate 1 made of a single
\* entry and one of calm rate 1: the stress sentence alone
C22_Witness ==
    /\ smOut # NotRun
    /\ Len(smIn.moodEntries) = 3
    /\ Len(LocationClusters) = 2
    /\ \E k \in 1..2 : /\ Len(LocationClusters[k].entries) = 1
                       /\ StressedIn(LocationClusters[k]) = 1
    /\ SomeCalmArea
    /\ HasStressAreaSentence
    /\ ~HasCalmAreaSentence

RoutePlaces == {0, 30, 100}

RouteStressStores ==
    { <<>>,
      << [id |-> "s1", center |-> 0, radius |-> 30] >>,
      << [id |-> "s1", center |-> 0, radius |-> 30],
         [id |-> "s2", center |-> 20, radius |-> 10] >> }

RouteCalmStores ==
    { <<>>,
      << [id |-> "c1", center |-> 60, radius |-> 30] >>,
      << [id |-> "c1", center |-> 60, radius |-> 30],
         [id |-> "c2", center |-> 15, radius |-> 15],
         [id |-> "c3", center |-> 10, radius |-> 25] >> }

InitRoute ==
    /\ rtIn \in [waypoints : SeqsUpTo(RoutePlaces, MaxWaypoints),
                 calmZones : RouteCalmStores, stressZones : RouteStressStores]
    /\ rtOut = <<>>
    /\ ClusterIdle
    /\ ZoneIdle
    /\ SummaryIdle
    /\ AppIdle
    /\ FallbackIdle
    /\ WalkingIdle
    /\ SuggestIdle
    /\ GpsIdle

AnalyzeRoute ==
    /\ rtOut = <<>>
    /\ rtOut' = << analyzeRouteOptimization(rtIn.waypoints, rtIn.calmZones, rtIn.stressZones) >>
    /\ UNCHANGED rtIn
    /\ UNCHANGED <<clusterVars, zoneVars, summaryVars, appVars,
                 fallbackVars, walkingVars, suggestVars, gpsVars>>

NextRoute == AnalyzeRoute

SpecRoute == InitRoute /\ [][NextRoute]_vars

\* The (waypoint, zone) pairs with the waypoint at distance <= the zone's
\* radius from its center.
HitPairs(waypoints, zones) ==
    {<<p, z>> \in (1..Len(waypoints)) \X (1..Len(zones)) :
        (IF waypoints[p] >= zones[z].center THEN waypoints[p] - zones[z].center
                                            ELSE zones[z].center - waypoints[p])
            <= zones[z].radius}

\* 0.5 - 0.1 * S + 0.05 * C, in units of 1 / Scale
RawRouteScore(S, C) == Scale \div 2 - S * (Scale \div 10) + C * (Scale \div 20)

\* C10: analyzeRouteOptimization returns clamp(0.5 - 0.1 * S + 0.05 * C, 0, 1)
\* with S and C the numbers of (waypoint, stress zone) and (waypoint, calm
\* zone) pairs at distance <= radius; the score is in [0,1], 0.5 when no
\* pair hits and 0.4 for one waypoint inside one stress zone and no calm
\* zone.
C10_RouteScore ==
    rtOut # <<>> =>
        LET S == Cardinality(HitPairs(rtIn.waypoints, rtIn.stressZones))
            C == Cardinality(HitPairs(rtIn.waypoints, rtIn.calmZones))
            raw == RawRouteScore(S, C)
        IN /\ rtOut[1].calmScore = (IF raw < 0 THEN 0 ELSE IF raw > Scale THEN Scale ELSE raw)
           /\ rtOut[1].calmScore >= 0 /\ rtOut[1].calmScore <= Scale
           /\ (S = 0 /\ C = 0) => 2 * rtOut[1].calmScore = Scale
           /\ (Len(rtIn.waypoints) = 1 /\ S = 1 /\ rtIn.calmZones = <<>>) =>
                 10 * rtOut[1].calmScore = 4 * Scale

\* one stress zone hit by two waypoints, one of them on its boundary, and
\* a calm zone hit: the score is 0.5 - 0.2 + 0.05
C10_Witness ==
    /\ rtOut # <<>>
    /\ Len(rtIn.stressZones) = 1
    /\ \E p, q \in 1..Len(rtIn.waypoints) :
          /\ p # q
          /\ rtIn.waypoints[p] = rtIn.stressZones[1].center
          /\ calculateDistance(rtIn.waypoints[q], rtIn.stressZones[1].center)
                = rtIn.stressZones[1].radius
    /\ Cardinality(HitPairs(rtIn.waypoints, rtIn.stressZones)) = 2
    /\ Cardinality(HitPairs(rtIn.waypoints, rtIn.calmZones)) = 1
    /\ 20 * rtOut[1].calmScore = 7 * Scale

\* The ids of the zones hit by at least one waypoint.
HitIds(waypoints, zones) ==
    {zones[z].id : z \in {h[2] : h \in HitPairs(waypoints, zones)}}

NoRepeat(s) == \A i, j \in 1..Len(s) : s[i] = s[j] => i = j

\* C11: avoidsStressZones holds exactly the ids of the stress zones hit by
\* at least one waypoint and includesCalmZones exactly those of the calm
\* zones hit, each id once however many waypoints hit the zone (the ids of
\* a store being distinct).
C11_TouchedIdsListedOnce ==
    rtOut # <<>> =>
        /\ Range(rtOut[1].avoidsStressZones) = HitIds(rtIn.waypoints, rtIn.stressZones)
        /\ Range(rtOut[1].includesCalmZones) = HitIds(rtIn.waypoints, rtIn.calmZones)
        /\ NoRepeat(rtOut[1].avoidsStressZones)
        /\ NoRepeat(rtOut[1].includesCalmZones)

\* a calm zone and a stress zone each hit by several waypoints, and a zone
\* of each store hit by none
C11_Witness ==
    /\ rtOut # <<>>
    /\ \E z \in 1..Len(rtIn.calmZones) :
          Cardinality({h \in HitPairs(rtIn.waypoints, rtIn.calmZones) : h[2] = z}) >= 2
    /\ \E z \in 1..Len(rtIn.stressZones) :
          Cardinality({h \in HitPairs(rtIn.waypoints, rtIn.stressZones) : h[2] = z}) >= 2
    /\ Len(rtOut[1].includesCalmZones) < Len(rtIn.calmZones)
    /\ Len(rtOut[1].avoidsStressZones) < Len(rtIn.stressZones)
    /\ Len(rtOut[1].includesCalmZones) >= 1
    /\ Len(rtOut[1].avoidsStressZones) >= 1

(***************************************************************************)
(* The fallback harness: createFallbackRoute applied to the trips below,   *)
(* with the random source one of the streams of JitterStreams.             *)
(***************************************************************************)
\* (Math.random() - 0.5) * 0.0001 degrees is between -5.6 m and 5.6 m of
\* latitude.
Jitters == {-5, 0, 5}

JitterDraws == [lat : Jitters, lng : Jitters]

\* The streams of period 3.
JitterStreams ==
    {[i \in 0..MaxSteps |-> IF i % 3 = 0 THEN a ELSE IF i % 3 = 1 THEN b ELSE c] :
        a \in JitterDraws, b \in JitterDraws, c \in JitterDraws}

TripLengths == {0, 597, 600, 840, 900, 1000, 1200, 1400, 1600, 1800, 2000}

FallbackTrips ==
    {[start |-> 0, end |-> d] : d \in TripLengths}
        \cup {[start |-> d, end |-> 0] : d \in {600, 1800}}

FallbackStores ==
    { [calmZones |-> <<>>, stressZones |-> <<>>],
      [calmZones |-> << [id |-> "c1", center |-> 600, radius |-> 30] >>,
       stressZones |-> << [id |-> "s1", center |-> 0, radius |-> 30] >>] }

InitFallback ==
    /\ \E trip \in FallbackTrips, store \in FallbackStores :
          fbIn = [start |-> trip.start, end |-> trip.end,
                  calmZones |-> store.calmZones, stressZones |-> store.stressZones]
    /\ fbOut = <<>>
    /\ ClusterIdle
    /\ ZoneIdle
    /\ SummaryIdle
    /\ RouteIdle
    /\ AppIdle
    /\ WalkingIdle
    /\ SuggestIdle
    /\ GpsIdle

BuildFallback ==
    /\ fbOut = <<>>
    /\ \E draws \in JitterStreams :
          fbOut' = << createFallbackRoute(fbIn.start, fbIn.end, fbIn.calmZones,
                                          fbIn.stressZones, 0, draws) >>
    /\ UNCHANGED fbIn
    /\ UNCHANGED <<clusterVars, zoneVars, summaryVars, routeVars, appVars,
                   walkingVars, suggestVars, gpsVars>>

NextFallback == BuildFallback

SpecFallback == InitFallback /\ [][NextFallback]_vars

TripLength == IF fbIn.end >= fbIn.start THEN fbIn.end - fbIn.start ELSE fbIn.start - fbIn.end

\* floor(D / 200)
StepsOf(D) == CHOOSE n \in 0..D : 200 * n <= D /\ D < 200 * (n + 1)

\* C13: the fallback route has clamp(floor(D / 200), 3, 8) steps for the
\* straight-line distance D of start and end: steps + 1 waypoints, between
\* 4 and 9, and steps segments, segment i from waypoint i to waypoint i + 1.
C13_FallbackStepCount ==
    fbOut # <<>> =>
        LET n == StepsOf(TripLength)
            steps == IF n < 3 THEN 3 ELSE IF n > 8 THEN 8 ELSE n
            route == fbOut[1]
        IN /\ Len(route.waypoints) = steps + 1
           /\ Len(route.waypoints) >= 4 /\ Len(route.waypoints) <= 9
           /\ Len(route.segments) = steps
           /\ \A i \in 1..steps :
                 /\ route.segments[i].start = route.waypoints[i]
                 /\ route.segments[i].end = route.waypoints[i + 1]

\* a trip of 900 m, where floor(4.5) steps are made
C13_Witness ==
    /\ fbOut # <<>>
    /\ TripLength = 900
    /\ Len(fbOut[1].waypoints) = 5
    /\ Len(fbOut[1].segments) = 4

\* C14: the first waypoint of the fallback route is exactly the start and
\* the last exactly the end, whatever the random source gives.
C14_EndpointsNotJittered ==
    fbOut # <<>> =>
        /\ fbOut[1].waypoints[1] = [latitude |-> fbIn.start, longitude |-> 0]
        /\ fbOut[1].waypoints[Len(fbOut[1].waypoints)] = [latitude |-> fbIn.end, longitude |-> 0]

(***************************************************************************)
(* One getWalkingRoute call.  Date.now() is the number of requests made.   *)
(* Every request is answered or fails in the end: the steps are fair.      *)
(* The random source of a fallback route is one of WalkingStreams.         *)
(***************************************************************************)
Coordinates == << <<0, 0>>, <<0, 300>>, <<0, 600>> >>

OrsBodies ==
    { [features |-> <<>>],
      [features |-> << [coordinates |-> <<>>, summary |-> << [distance |-> 0] >>] >>],
      [features |-> << [coordinates |-> Coordinates, summary |-> <<>>] >>],
      [features |-> << [coordinates |-> Coordinates, summary |-> << [distance |-> 640] >>] >>] }

GhBodies ==
    { [paths |-> <<>>],
      [paths |-> << [points |-> <<>>, distance |-> 0] >>],
      [paths |-> << [points |-> Coordinates, distance |-> 650] >>] }

WalkingTrips == {[start |-> 0, end |-> 600], [start |-> 600, end |-> 0], [start |-> 0, end |-> 0]}

\* The streams that give every waypoint the same variations.
WalkingStreams == {[i \in 0..MaxSteps |-> a] : a \in JitterDraws}

InitWalking ==
    /\ \E trip \in WalkingTrips, store \in FallbackStores :
          wr = [NoWalkingRoute EXCEPT !.start = trip.start, !.end = trip.end,
                                      !.calmZones = store.calmZones,
                                      !.stressZones = store.stressZones]
    /\ ClusterIdle
    /\ ZoneIdle
    /\ SummaryIdle
    /\ RouteIdle
    /\ AppIdle
    /\ FallbackIdle
    /\ SuggestIdle
    /\ GpsIdle

\* getWalkingRoute up to the fetch of getBasicRoute (lines 879-914): the
\* start and the end go out in the query.
CallWalkingRoute ==
    /\ wr.pc = "idle"
    /\ wr' = [wr EXCEPT !.pc = "openrouteservice",
                        !.requests = Append(@, [host |-> "api.openrouteservice.org",
                                                start |-> wr.start, end |-> wr.end])]
    /\ UNCHANGED <<clusterVars, zoneVars, summaryVars, routeVars, appVars,
                   fallbackVars, suggestVars, gpsVars>>

\* The OpenRouteService request fails (lines 916-924): GraphHopper is asked.
OrsFails ==
    /\ wr.pc = "openrouteservice"
    /\ \E response \in FailedResponses :
          wr' = [wr EXCEPT !.pc = "graphhopper",
                           !.failures = Append(@, "openrouteservice"),
                           !.requests = Append(@, [host |-> "graphhopper.com",
                                                   start |-> wr.start, end |-> wr.end])]
    /\ UNCHANGED <<clusterVars, zoneVars, summaryVars, routeVars, appVars,
                   fallbackVars, suggestVars, gpsVars>>

\* OpenRouteService answers with a body (lines 920-921, then 890-897).
OrsAnswers ==
    /\ wr.pc = "openrouteservice"
    /\ \E data \in OrsBodies, draws \in WalkingStreams :
          wr' = SettleWith(wr, data, draws)
    /\ UNCHANGED <<clusterVars, zoneVars, summaryVars, routeVars, appVars,
                   fallbackVars, suggestVars, gpsVars>>

\* The GraphHopper request fails (lines 940-944 and 966-969, then 893-897).
GhFails ==
    /\ wr.pc = "graphhopper"
    /\ \E response \in FailedResponses, draws \in WalkingStreams :
          wr' = SettleAfterFailure([wr EXCEPT !.failures = Append(@, "graphhopper")], draws)
    /\ UNCHANGED <<clusterVars, zoneVars, summaryVars, routeVars, appVars,
                   fallbackVars, suggestVars, gpsVars>>

\* GraphHopper answers with a body (lines 946-969, then 890-897).
GhAnswers ==
    /\ wr.pc = "graphhopper"
    /\ \E data \in GhBodies, draws \in WalkingStreams :
          LET basicRoute == ConvertGraphHopper(data)
          IN wr' = IF basicRoute.threw
                   THEN SettleAfterFailure(
                            [wr EXCEPT !.failures = Append(@, "graphhopper")], draws)
                   ELSE SettleWith(wr, basicRoute.value, draws)
    /\ UNCHANGED <<clusterVars, zoneVars, summaryVars, routeVars, appVars,
                   fallbackVars, suggestVars, gpsVars>>

NextWalking ==
    \/ CallWalkingRoute
    \/ OrsFails
    \/ OrsAnswers
    \/ GhFails
    \/ GhAnswers

SpecWalking == InitWalking /\ [][NextWalking]_vars /\ WF_vars(NextWalking)

\* Routing failed: no service gave a route, or the route given could not be
\* processed.
RoutingFailed ==
    \/ "processing" \in Range(wr.failures)
    \/ {"openrouteservice", "graphhopper"} \subseteq Range(wr.failures)

\* The route returned is one that createFallbackRoute makes for the call.
IsFallbackRoute ==
    /\ wr.built # <<>>
    /\ wr.built[Len(wr.built)] = "createFallbackRoute"
    /\ wr.outcome[1].route.start = wr.start
    /\ wr.outcome[1].route.end = wr.end
    /\ wr.outcome[1].route.totalDistance = calculateDistance(wr.start, wr.end)
    /\ Len(wr.outcome[1].route.waypoints)
          = FallbackSteps(calculateDistance(wr.start, wr.end)) + 1

\* The hosts asked so far, in the order of the requests.
HostsAsked == [i \in 1..Len(wr.requests) |-> wr.requests[i].host]

\* C29: within a getWalkingRoute call OpenRouteService is asked first and
\* GraphHopper second, each at most once, and GraphHopper only after the
\* OpenRouteService request failed; optimizeRoute and createFallbackRoute
\* run at most once each, createFallbackRoute only after both requests
\* failed or the processing threw; and when the processing of a service's
\* route succeeded, that route is the one returned.
C29_SourcesTriedInOrder ==
    /\ HostsAsked \in { <<>>, <<"api.openrouteservice.org">>,
                        <<"api.openrouteservice.org", "graphhopper.com">> }
    /\ "graphhopper.com" \in Range(HostsAsked) => "openrouteservice" \in Range(wr.failures)
    /\ wr.built \in { <<>>, <<"optimizeRoute">>, <<"createFallbackRoute">>,
                      <<"optimizeRoute", "createFallbackRoute">> }
    /\ "createFallbackRoute" \in Range(wr.built) => RoutingFailed
    /\ (/\ wr.outcome # <<>>
        /\ "optimizeRoute" \in Range(wr.built)
        /\ "processing" \notin Range(wr.failures)) =>
           /\ wr.built = <<"optimizeRoute">>
           /\ wr.outcome[1].status = "fulfilled"
           /\ wr.outcome[1].route.totalDistance \in {640, 650}
           /\ wr.outcome[1].route.waypoints
                 = [i \in 1..Len(Coordinates) |->
                       [longitude |-> Coordinates[i][1], latitude |-> Coordinates[i][2]]]

\* OpenRouteService failed, GraphHopper answered, and its route was
\* processed and returned
C29_Witness ==
    /\ wr.outcome # <<>>
    /\ HostsAsked = <<"api.openrouteservice.org", "graphhopper.com">>
    /\ wr.failures = <<"openrouteservice">>
    /\ wr.built = <<"optimizeRoute">>
    /\ wr.outcome[1].route.totalDistance = 650

\* C12, as the code has it: every getWalkingRoute call is fulfilled with a
\* route and none is rejected; the route is the fallback route whenever
\* both requests failed or a response could not be processed, and the
\* route of GraphHopper's answer when only the OpenRouteService request
\* failed.
C12_FulfilledWithFallbackWhenRoutingFailed ==
    /\ <>(wr.outcome # <<>>)
    /\ [](wr.outcome # <<>> =>
            /\ wr.outcome[1].status = "fulfilled"
            /\ RoutingFailed <=> IsFallbackRoute)

\* both requests failed, and the call is fulfilled with the fallback route
C12_Witness ==
    /\ wr.outcome # <<>>
    /\ wr.failures = <<"openrouteservice", "graphhopper">>
    /\ wr.outcome[1].status = "fulfilled"
    /\ IsFallbackRoute

\* C12, as stated: whenever the OpenRouteService request, the GraphHopper
\* request or the processing of a response failed, the route returned is
\* the fallback route.
C12_FallbackOnAnyFailure ==
    (wr.outcome # <<>> /\ wr.failures # <<>>) => IsFallbackRoute

\* C17: no location of the user is sent to a server: every request of a
\* getWalkingRoute call is free of the call's start and end.
C17_NoLocationSentOut ==
    \A i \in 1..Len(wr.requests) :
        /\ wr.requests[i].start # wr.start
        /\ wr.requests[i].end # wr.end

(***************************************************************************)
(* The suggestion harness: generateRouteSuggestion applied to the trips    *)
(* below and to the stores made of any of the zones below, in their order. *)
(***************************************************************************)
SuggestTrips == {[start |-> 0, end |-> d] : d \in {0, 300, 400}}

SuggestCalmZones ==
    << [id |-> "c1", center |-> 100, score |-> Scale \div 2],
       [id |-> "c2", center |-> 199, score |-> Scale \div 3],
       [id |-> "c3", center |-> 150, score |-> Scale],
       [id |-> "c4", center |-> 200, score |-> Scale] >>

SuggestStressZones ==
    << [id |-> "s1", center |-> 50, score |-> Scale],
       [id |-> "s2", center |-> 150, score |-> Scale \div 2],
       [id |-> "s3", center |-> 200, score |-> Scale],
       [id |-> "s4", center |-> 120, score |-> Scale] >>

\* The lists that keep some of the members of s, in the order of s.
RECURSIVE SubLists(_)
SubLists(s) ==
    IF s = <<>> THEN {<<>>}
    ELSE LET rest == SubLists(Tail(s))
         IN rest \cup {<<Head(s)>> \o r : r \in rest}

InitSuggest ==
    /\ \E trip \in SuggestTrips, calmZones \in SubLists(SuggestCalmZones),
          stressZones \in SubLists(SuggestStressZones) :
            sgIn = [start |-> trip.start, end |-> trip.end,
                    calmZones |-> calmZones, stressZones |-> stressZones]
    /\ sgOut = <<>>
    /\ ClusterIdle
    /\ ZoneIdle
    /\ SummaryIdle
    /\ RouteIdle
    /\ AppIdle
    /\ FallbackIdle
    /\ WalkingIdle
    /\ GpsIdle

Suggest ==
    /\ sgOut = <<>>
    /\ sgOut' = << generateRouteSuggestion(sgIn.start, sgIn.end, sgIn.calmZones,
                                           sgIn.stressZones, 0) >>
    /\ UNCHANGED sgIn
    /\ UNCHANGED <<clusterVars, zoneVars, summaryVars, routeVars, appVars,
                   fallbackVars, walkingVars, gpsVars>>

NextSuggest == Suggest

SpecSuggest == InitSuggest /\ [][NextSuggest]_vars

Apart(a, b) == IF a >= b THEN a - b ELSE b - a

\* The places in a store of the zones nearer than 200 m to both the start
\* and the end, and of those no farther than 200 m.
NearerThan200(zones) ==
    {z \in 1..Len(zones) : /\ Apart(sgIn.start, zones[z].center) < 200
                           /\ Apart(sgIn.end, zones[z].center) < 200}

NoFartherThan200(zones) ==
    {z \in 1..Len(zones) : /\ Apart(sgIn.start, zones[z].center) <= 200
                           /\ Apart(sgIn.end, zones[z].center) <= 200}

\* The suggestion is clamp(0.5 + 0.3 * b - 0.2 * n, 0, 1), in [0,1], with
\* the center of a zone of score b as its only waypoint, for the calm and
\* stress zones at the places calm and stress.
SuggestionFollows(calm, stress) ==
    LET b == IF calm = {} THEN 0
             ELSE CHOOSE v \in {sgIn.calmZones[z].score : z \in calm} :
                      \A z \in calm : sgIn.calmZones[z].score <= v
        n == Cardinality(stress)
        raw == 5 * Scale + 3 * b - 2 * Scale * n
    IN /\ sgOut[1].calmScore
             = (IF raw < 0 THEN 0 ELSE IF raw > 10 * Scale THEN 10 * Scale ELSE raw)
       /\ sgOut[1].calmScore >= 0 /\ sgOut[1].calmScore <= 10 * Scale
       /\ calm = {} => sgOut[1].waypoints = <<>>
       /\ calm # {} =>
             \E z \in calm : /\ sgIn.calmZones[z].score = b
                             /\ sgOut[1].waypoints = <<sgIn.calmZones[z].center>>

AppPlaces == {65}

AppNoiseLevels == {70}

Now == counters.startWalk + counters.logMood + counters.endWalk

\* What an earlier run of the app left in localStorage: the stress zone
\* made from two stressed entries 15 m from the place of this run.
StoredStressZone ==
    CreatedZone("stress",
                [center |-> 80,
                 entries |-> << [id |-> 1, loc |-> 80, mood |-> "stressed", noise |-> 0, ts |-> 0],
                                [id |-> 2, loc |-> 80, mood |-> "stressed", noise |-> 0, ts |-> 0] >>],
                0, 1)

AppStores == { [heap |-> <<StoredStressZone>>, calmZones |-> <<>>, stressZones |-> <<1>>] }

\* The state after mount (lines 32-45): the stores are loaded (JSON.parse
\* gives new objects), and no app state was ever saved.
InitApp ==
    /\ \E store \in AppStores :
          /\ appHeap = store.heap
          /\ appState = [InitialAppState EXCEPT !.calmZones = store.calmZones,
                                                !.stressZones = store.stressZones]
          /\ closure = appState
          /\ storage = [sessions |-> <<>>,
                        calmZones |-> Deref(store.heap, store.calmZones),
                        stressZones |-> Deref(store.heap, store.stressZones)]
    /\ gps = [watchId |-> 0, watches |-> {}, issued |-> 0]
    /\ audioOn = FALSE
    /\ tasks = <<>>
    /\ counters = NoWalks
    /\ ClusterIdle
    /\ ZoneIdle
    /\ SummaryIdle
    /\ RouteIdle
    /\ FallbackIdle
    /\ WalkingIdle
    /\ SuggestIdle
    /\ GpsIdle

Render ==
    /\ closure # appState
    /\ closure' = appState
    /\ UNCHANGED <<appState, appHeap, storage, gps, audioOn, tasks, counters>>
    /\ UNCHANGED <<clusterVars, zoneVars, summaryVars, routeVars,
                 fallbackVars, walkingVars, suggestVars, gpsVars>>

\* startWalk up to its first await (lines 73-86): newSession is made and
\* gpsService.startTracking() waits for getCurrentPosition.
StartWalk ==
    /\ Now < MaxCalls
    /\ Len(tasks) < MaxPending
    /\ LET newSession == [id |-> counters.startWalk + 1, startTime |-> Now,
                          moodEntries |-> <<>>, stressCount |-> 0,
                          calmCount |-> 0, neutralCount |-> 0]
       IN tasks' = Append(tasks, [newSession |-> newSession, awaits |-> "gps",
                                  gpsStarted |-> FALSE])
    /\ counters' = [counters EXCEPT !.startWalk = @ + 1]
    /\ UNCHANGED <<appState, closure, appHeap, storage, gps, audioOn>>
    /\ UNCHANGED <<clusterVars, zoneVars, summaryVars, routeVars,
                 fallbackVars, walkingVars, suggestVars, gpsVars>>

\* GPSService.startTracking after its await (gps.ts 16-51), then startWalk
\* up to audioService.startRecording()'s await.  Without navigator.geolocation
\* the result is false; else the position, if one came, is reported and a
\* watch is started, its id stored over the one held.
GpsResolved ==
    \E t \in 1..Len(tasks) :
       /\ tasks[t].awaits = "gps"
       /\ \/ /\ tasks' = [tasks EXCEPT ![t].awaits = "audio", ![t].gpsStarted = FALSE]
             /\ UNCHANGED <<appState, gps>>
          \/ \E position \in {<<>>} \cup {<<l>> : l \in AppPlaces} :
                /\ appState' = IF position = <<>> THEN appState
                               ELSE [appState EXCEPT !.currentLocation = position]
                /\ gps' = [watchId |-> gps.issued + 1,
                           watches |-> gps.watches \cup {gps.issued + 1},
                           issued |-> gps.issued + 1]
                /\ tasks' = [tasks EXCEPT ![t].awaits = "audio", ![t].gpsStarted = TRUE]
    /\ UNCHANGED <<closure, appHeap, storage, audioOn, counters>>
    /\ UNCHANGED <<clusterVars, zoneVars, summaryVars, routeVars,
                 fallbackVars, walkingVars, suggestVars, gpsVars>>

RemoveAt(s, i) == SubSeq(s, 1, i - 1) \o SubSeq(s, i + 1, Len(s))

\* AudioService.startRecording after getUserMedia (audio.ts 13-46), then the
\* rest of startWalk (lines 88-98): the session becomes current when both
\* services started; else an alert is shown and the state is left as it is.
MicResolved ==
    \E t \in 1..Len(tasks), audioStarted \in BOOLEAN :
       /\ tasks[t].awaits = "audio"
       /\ audioOn' = (audioOn \/ audioStarted)
       /\ appState' = IF tasks[t].gpsStarted /\ audioStarted
                      THEN [appState EXCEPT !.currentSession = <<tasks[t].newSession>>,
                                            !.isTracking = TRUE,
                                            !.isRecordingAudio = TRUE]
                      ELSE appState
       /\ tasks' = RemoveAt(tasks, t)
    /\ UNCHANGED <<closure, appHeap, storage, gps, counters>>
    /\ UNCHANGED <<clusterVars, zoneVars, summaryVars, routeVars,
                 fallbackVars, walkingVars, suggestVars, gpsVars>>

\* the watchPosition callback (App.tsx 49-51)
LocationUpdate ==
    /\ gps.watches # {}
    /\ \E l \in AppPlaces : appState' = [appState EXCEPT !.currentLocation = <<l>>]
    /\ UNCHANGED <<closure, appHeap, storage, gps, audioOn, tasks, counters>>
    /\ UNCHANGED <<clusterVars, zoneVars, summaryVars, routeVars,
                 fallbackVars, walkingVars, suggestVars, gpsVars>>

\* the noise callback (App.tsx 58-60)
NoiseUpdate ==
    /\ audioOn
    /\ \E n \in AppNoiseLevels : appState' = [appState EXCEPT !.currentNoiseLevel = n]
    /\ UNCHANGED <<closure, appHeap, storage, gps, audioOn, tasks, counters>>
    /\ UNCHANGED <<clusterVars, zoneVars, summaryVars, routeVars,
                 fallbackVars, walkingVars, suggestVars, gpsVars>>

\* Mutant of LoggedSession: neutral entries are not counted.
LoggedSessionNeutralUncounted(currentSession, moodEntry) ==
    [currentSession EXCEPT
        !.moodEntries = Append(@, moodEntry),
        !.stressCount = @ + (IF moodEntry.mood = "stressed" THEN 1 ELSE 0),
        !.calmCount = @ + (IF moodEntry.mood = "calm" THEN 1 ELSE 0)]

\* updatedSession of logMood (lines 154-160)
LoggedSession(currentSession, moodEntry) ==
    [currentSession EXCEPT
        !.moodEntries = Append(@, moodEntry),
        !.stressCount = @ + (IF moodEntry.mood = "stressed" THEN 1 ELSE 0),
        !.calmCount = @ + (IF moodEntry.mood = "calm" THEN 1 ELSE 0),
        !.neutralCount = @ + (IF moodEntry.mood = "neutral" THEN 1 ELSE 0)]

\* Mutant of LogMood: the state set is the closure's with the session
\* replaced, setAppState({...appState, currentSession: updatedSession}).
LogMoodFromClosure ==
    /\ Now < MaxCalls
    /\ closure.currentSession # <<>>
    /\ closure.currentLocation # <<>>
    /\ \E mood \in Moods :
          LET moodEntry == [id |-> counters.logMood + 1,
                            loc |-> closure.currentLocation[1],
                            mood |-> mood,
                            noise |-> closure.currentNoiseLevel,
                            ts |-> Now]
              updatedSession == LoggedSession(closure.currentSession[1], moodEntry)
          IN appState' = [closure EXCEPT !.currentSession = <<updatedSession>>]
    /\ counters' = [counters EXCEPT !.logMood = @ + 1]
    /\ UNCHANGED <<closure, appHeap, storage, gps, audioOn, tasks>>
    /\ UNCHANGED <<clusterVars, zoneVars, summaryVars, routeVars,
                   fallbackVars, walkingVars, suggestVars, gpsVars>>

\* logMood (lines 141-166)
LogMood ==
    /\ Now < MaxCalls
    /\ closure.currentSession # <<>>
    /\ closure.currentLocation # <<>>
    /\ \E mood \in Moods :
          LET moodEntry == [id |-> counters.logMood + 1,
                            loc |-> closure.currentLocation[1],
                            mood |-> mood,
                            noise |-> closure.currentNoiseLevel,
                            ts |-> Now]
              updatedSession == LoggedSession(closure.currentSession[1], moodEntry)
          IN appState' = [appState EXCEPT !.currentSession = <<updatedSession>>]
    /\ counters' = [counters EXCEPT !.logMood = @ + 1]
    /\ UNCHANGED <<closure, appHeap, storage, gps, audioOn, tasks>>
    /\ UNCHANGED <<clusterVars, zoneVars, summaryVars, routeVars,
                 fallbackVars, walkingVars, suggestVars, gpsVars>>

\* GPSService.stopTracking (gps.ts 53-58)
stopTracking(g) ==
    IF g.watchId # 0
    THEN [g EXCEPT !.watchId = 0, !.watches = @ \ {g.watchId}]
    ELSE g

\* endWalk (lines 102-138)
EndWalk ==
    /\ Now < MaxCalls
    /\ closure.currentSession # <<>>
    /\ gps' = stopTracking(gps)
    /\ audioOn' = FALSE
    /\ LET ended == [endTime |-> Now] @@ closure.currentSession[1]
           completedSession == [summary |-> generateSessionInsights(ended)] @@ ended
           dry == updateZonesFromSession(completedSession, closure.calmZones,
                      closure.stressZones, appHeap, Now, [k \in 1..MaxCalls |-> 1])
       IN \E draws \in [1..dry.created -> Suffixes] :
            LET r == updateZonesFromSession(completedSession, closure.calmZones,
                         closure.stressZones, appHeap, Now, draws)
            IN /\ appHeap' = r.heap
               /\ storage' = [sessions |-> Append(storage.sessions, completedSession),
                              calmZones |-> Deref(r.heap, r.calmZones),
                              stressZones |-> Deref(r.heap, r.stressZones)]
               /\ appState' = [appState EXCEPT
                                  !.currentSession = <<>>,
                                  !.isTracking = FALSE,
                                  !.isRecordingAudio = FALSE,
                                  !.sessions = Append(@, completedSession),
                                  !.calmZones = r.calmZones,
                                  !.stressZones = r.stressZones]
    /\ counters' = [counters EXCEPT !.endWalk = @ + 1]
    /\ UNCHANGED <<closure, tasks>>
    /\ UNCHANGED <<clusterVars, zoneVars, summaryVars, routeVars,
                 fallbackVars, walkingVars, suggestVars, gpsVars>>

Next ==
    \/ Render
    \/ StartWalk
    \/ GpsResolved
    \/ MicResolved
    \/ LocationUpdate
    \/ NoiseUpdate
    \/ LogMood
    \/ EndWalk

Spec == InitApp /\ [][Next]_vars

\* C1: whenever a session is active, each counter of currentSession is the
\* number of its entries with that mood, and the three counters add up to
\* the number of entries.
C1_CountersMatchEntries ==
    appState.currentSession # <<>> =>
        LET cs == appState.currentSession[1] IN
        /\ cs.stressCount = CountIn(cs.moodEntries, LAMBDA e : e.mood = "stressed")
        /\ cs.calmCount = CountIn(cs.moodEntries, LAMBDA e : e.mood = "calm")
        /\ cs.neutralCount = CountIn(cs.moodEntries, LAMBDA e : e.mood = "neutral")
        /\ cs.stressCount + cs.calmCount + cs.neutralCount = Len(cs.moodEntries)

\* the second walk, after the first was ended, with a neutral entry and an
\* entry of another mood logged
C1_Witness ==
    /\ appState.currentSession # <<>>
    /\ Len(appState.sessions) >= 1
    /\ appState.currentSession[1].id = 2
    /\ Len(appState.currentSession[1].moodEntries) >= 2
    /\ \E i, j \in 1..Len(appState.currentSession[1].moodEntries) :
          /\ appState.currentSession[1].moodEntries[i].mood = "neutral"
          /\ appState.currentSession[1].moodEntries[j].mood # "neutral"

\* C16: the zone collections of the App and the stored ones change only
\* when a walk ends: a step that is not an endWalk call (startWalk and its
\* continuations, logMood, a location or noise update, a render) leaves
\* appState.calmZones, appState.stressZones, the zones they hold and the
\* stored zones as they were.
C16_ZonesChangeOnlyAtWalkEnd ==
    [][(\/ appState'.calmZones # appState.calmZones
        \/ appState'.stressZones # appState.stressZones
        \/ Deref(appHeap', appState'.calmZones) # Deref(appHeap, appState.calmZones)
        \/ Deref(appHeap', appState'.stressZones) # Deref(appHeap, appState.stressZones)
        \/ storage'.calmZones # storage.calmZones
        \/ storage'.stressZones # storage.stressZones)
          => counters'.endWalk = counters.endWalk + 1]_vars

\* a walk was ended and made a calm zone, and a mood was logged after that
\* from the closure of before the end
C16_Witness ==
    /\ counters.endWalk = 1
    /\ counters.logMood = 3
    /\ Len(appState.calmZones) = 1
    /\ Len(closure.calmZones) = 0
    /\ appState.currentSession # <<>>
    /\ Len(appState.currentSession[1].moodEntries) = 3

\* C25: no accepted mood entry is lost.  A logMood call made while a session
\* is active and a location is known leaves the session with the entries it
\* had followed by one new entry; an endWalk call made while a session is
\* active saves a session with all the entries the active session had, in
\* order.
C25_NoMoodEntryLost ==
    [][/\ (/\ counters'.logMood = counters.logMood + 1
           /\ appState.currentSession # <<>>
           /\ appState.currentLocation # <<>>) =>
              /\ appState'.currentSession # <<>>
              /\ LET old == appState.currentSession[1].moodEntries
                     new == appState'.currentSession[1].moodEntries
                 IN /\ Len(new) = Len(old) + 1
                    /\ SubSeq(new, 1, Len(old)) = old
                    /\ new[Len(new)].id = counters'.logMood
       /\ (/\ counters'.endWalk = counters.endWalk + 1
           /\ appState.currentSession # <<>>) =>
              /\ Len(storage'.sessions) = Len(storage.sessions) + 1
              /\ storage'.sessions[Len(storage'.sessions)].moodEntries
                    = appState.currentSession[1].moodEntries]_vars

\* C26: in every reachable state of the App, isTracking is true if and only
\* if currentSession is not null, and isRecordingAudio equals isTracking.
C26_TrackingIffSession ==
    /\ appState.isTracking <=> appState.currentSession # <<>>
    /\ appState.isRecordingAudio = appState.isTracking

\* C27: when a startWalk call made with no walk active ends without making
\* its session current (GPS tracking or audio recording did not start), no
\* geolocation watch is registered and no audio monitoring is active after
\* it, currentSession is null and isTracking is false.
C27_FailedStartLeavesNothingRunning ==
    [][(/\ Len(tasks') < Len(tasks)
        /\ appState.currentSession = <<>>
        /\ appState'.currentSession = <<>>) =>
           /\ gps'.watches = {}
           /\ ~audioOn'
           /\ ~appState'.isTracking]_vars

(***************************************************************************)
(* The GPS harness: startTracking and stopTracking called in any order on  *)
(* one GPSService, in a browser with navigator.geolocation.  A             *)
(* startTracking call waits for getCurrentPosition (gt.pending counts the  *)
(* calls waiting) and then registers its watch; gt.watches are the watches *)
(* registered with the browser, gt.issued the ids handed out so far.       *)
(* gt.lastCall is the last method called, gt.updatedSinceStop whether a    *)
(* location was reported to onLocationUpdate since stopTracking was last   *)
(* called with no startTracking call after it.                             *)
(***************************************************************************)
MaxWatches == 4

\* startTracking up to its await (gps.ts 16-24)
CallStartTracking ==
    /\ gt.issued + gt.pending < MaxWatches
    /\ gt' = [gt EXCEPT !.pending = @ + 1, !.lastCall = "start",
                        !.updatedSinceStop = FALSE]
    /\ UNCHANGED <<clusterVars, zoneVars, summaryVars, routeVars, appVars,
                   fallbackVars, walkingVars, suggestVars>>

\* startTracking after its await (gps.ts 24-46): the position, when there
\* is one, is reported, and the id of a new watch is stored in watchId.
PositionResolved ==
    /\ gt.pending > 0
    /\ \E position \in BOOLEAN :
          gt' = [gt EXCEPT !.pending = @ - 1,
                           !.watchId = gt.issued + 1,
                           !.watches = @ \cup {gt.issued + 1},
                           !.issued = @ + 1,
                           !.updatedSinceStop = @ \/ (position /\ gt.lastCall = "stop")]
    /\ UNCHANGED <<clusterVars, zoneVars, summaryVars, routeVars, appVars,
                   fallbackVars, walkingVars, suggestVars>>

\* the success callback of a registered watch (gps.ts 30-32)
WatchReports ==
    /\ gt.watches # {}
    /\ gt' = [gt EXCEPT !.updatedSinceStop = @ \/ gt.lastCall = "stop"]
    /\ UNCHANGED <<clusterVars, zoneVars, summaryVars, routeVars, appVars,
                   fallbackVars, walkingVars, suggestVars>>

\* stopTracking (gps.ts 53-58), from the App's endWalk or its cleanup
CallStopTracking ==
    /\ gt' = [stopTracking(gt) EXCEPT !.lastCall = "stop", !.updatedSinceStop = FALSE]
    /\ UNCHANGED <<clusterVars, zoneVars, summaryVars, routeVars, appVars,
                   fallbackVars, walkingVars, suggestVars>>

InitGps ==
    /\ gt = NoTracking
    /\ ClusterIdle
    /\ ZoneIdle
    /\ SummaryIdle
    /\ RouteIdle
    /\ AppIdle
    /\ FallbackIdle
    /\ WalkingIdle
    /\ SuggestIdle

NextGps ==
    \/ CallStartTracking
    \/ PositionResolved
    \/ WatchReports
    \/ CallStopTracking

SpecGps == InitGps /\ [][NextGps]_vars

\* C28: at most one watch registered by the service is active at any time,
\* and when stopTracking was the last call made (it has returned, and no
\* startTracking was called after it) no watch is registered and no location
\* has been reported since, startTracking calls still waiting for their
\* first position included.
C28_AtMostOneWatchNoneAfterStop ==
    /\ Cardinality(gt.watches) <= 1
    /\ gt.lastCall = "stop" => (gt.watches = {} /\ ~gt.updatedSinceStop)

=============================================================================
